---- MODULE Spec2Model ----
(***************************************************************************)
(* Verification model of jmatss/auth.                                      *)
(*                                                                         *)
(*  - Spec / SpecSerial / SpecFair : the QR scanner lifecycle of           *)
(*    src/src/qr.rs, SpecFair with every running call taking its steps     *)
(*    (start_qr_scanner, stop_qr_scanner, Java_CameraHelper_handleImage),  *)
(*    over the RwLock<Option<GlobalRef>> pipeline slot.                    *)
(*  - SpecTurned : the scanner with frames of a device that is turned.     *)
(*  - SpecJava : the camera calls of JavaHelpers (src/src/java.rs) on the  *)
(*    helper that load_helper_objects constructed.                         *)
(*  - SpecCamera : the native camera pipeline of src/src/camera.rs (the    *)
(*    owning wrappers, their Drop implementations, the frame listener).    *)
(*  - SpecListener : the frame listener of a streaming pipeline, called on *)
(*    several service threads at once.                                     *)
(*  - SpecDevice : a CameraDevice and the sessions created from it.        *)
(*  - SpecSelect : CameraManager::get_camera_id over the camera lists of a *)
(*    host.                                                                *)
(*  - SpecPure : the functions of their arguments only, each applied to    *)
(*    the arguments of a bounded set.                                      *)
(*  - SpecCodes : code_handler of src/src/codes.rs, the messages it        *)
(*    receives and the passing of time.                                    *)
(***************************************************************************)
EXTENDS Integers, Sequences, FiniteSets, TLC

\* ---------------------------------------------------------------- bounds
NumCallers == 2
MaxCalls == 3
MaxFrames == 1
MaxTurned == 2
MaxCycles == 1
MaxImages == 1
NumCameras == 1
MaxSessions == 5
MaxThreads == 2
MaxCameraIds == 4
MaxEntries == 3
MaxDeg == 450
MaxMessages == 3
MaxTime == 1002

None == 0
Callers == 1..NumCallers

VARIABLES
    \* ---- qr.rs
    slot,          \* Option<GlobalRef>: None or the id of the installed CameraHelper
    readers,       \* callers holding the RwLock's read guard
    pc,            \* position of each caller inside start_qr_scanner / stop_qr_scanner
    op,            \* the operation each caller runs (or ran last)
    local,         \* the locals of each caller's running call
    ret,           \* what each caller's last call returned
    calls,         \* number of calls each caller has begun
    permission,    \* host: is the camera permission held
    hostLog,       \* host: [checks, requests] permission calls made so far
    boxes,         \* heap: for each leaked Box<Weak<MainWindow>>, how often it was freed
    helpers,       \* Java: the CameraHelper objects created so far
    frames,        \* Java_CameraHelper_handleImage invocations dispatched so far
    \* ---- camera.rs
    cam,           \* position of the thread that builds / owns / drops the pipeline
    bl,            \* the builder's local wrappers
    ctx,           \* the installed CameraContext, or None
    pending,       \* native calls still to be made by the drop glue now running
    log,           \* native unlink / release calls made by drop glue, in order
    native,        \* native handle -> number of times its release function ran
    cycles,        \* number of build attempts begun
    cbs,           \* on_image_available invocations dispatched so far
    uiQueue,       \* frames handed to the UI event loop, in the order of the hand-over
    handlers,      \* the ImageHandler boxes leaked to the reader's listener
    \* ---- camera.rs, CameraDevice on its own
    dv,            \* a CameraDevice and the sessions its caller created from it
    \* ---- camera.rs, CameraManager::get_camera_id
    sel,           \* the cameras of the host and the id selected among them
    \* ---- camera.rs and qr.rs, functions of their arguments only
    pure,          \* the function called, its argument and what it returned
    \* ---- codes.rs
    ch             \* code_handler: its locals, the UI code list, the URLs on disk

qrVars == <<slot, readers, pc, op, local, ret, calls, permission, hostLog, boxes,
            helpers, frames>>
camVars == <<cam, bl, ctx, pending, log, native, cycles, cbs, uiQueue, handlers>>
nonQrVars == <<camVars, dv, sel, pure, ch>>
nonCamVars == <<qrVars, dv, sel, pure, ch>>
nonDevVars == <<qrVars, camVars, sel, pure, ch>>
nonSelVars == <<qrVars, camVars, dv, pure, ch>>
nonPureVars == <<qrVars, camVars, dv, sel, ch>>
nonCodeVars == <<qrVars, camVars, dv, sel, pure>>
vars == <<qrVars, camVars, dv, sel, pure, ch>>

\* =========================================================================
\*                              src/src/qr.rs
\* =========================================================================

NoLocal == [helper |-> None, ptr |-> None, saw |-> FALSE]

\* load_helper_objects (java.rs:138-148), called by android_main (lib.rs:79)
\* before the window runs: the CameraHelper of JavaHelpers is constructed by
\* its constructor without a pointer and is not started.  Every JNI result
\* on the way is unwrapped: when one fails android_main panics and no call
\* of the UI is ever made.
LoadHelperObjects == <<[state |-> "constructed", ptr |-> None, stops |-> 0]>>

\* The state in which MainWindow::run is entered (lib.rs:105).
InitQr ==
    /\ slot = None
    /\ readers = {}
    /\ pc = [c \in Callers |-> "idle"]
    /\ op = [c \in Callers |-> "none"]
    /\ local = [c \in Callers |-> NoLocal]
    /\ ret = [c \in Callers |-> "none"]
    /\ calls = [c \in Callers |-> 0]
    /\ permission \in BOOLEAN
    /\ hostLog = [checks |-> 0, requests |-> 0]
    /\ boxes = <<>>
    /\ helpers = LoadHelperObjects
    /\ frames = <<>>

\* The RwLock: write() is granted only while no read guard is out.  Every
\* write guard of qr.rs is a temporary of one assignment statement, so a write
\* section is one step and no writer is ever seen holding the lock.
CanRead == TRUE

\* Calls begun so far, over all callers.
RECURSIVE CallsBy(_)
CallsBy(n) == IF n = 0 THEN 0 ELSE calls[n] + CallsBy(n - 1)
MayCall == CallsBy(NumCallers) < MaxCalls
CanWrite == readers = {}

RunningHelpers == {h \in 1..Len(helpers) : helpers[h].state = "running"}

\* The process runs: no panic has crossed the extern "system" boundary of
\* Java_CameraHelper_handleImage and no undefined behaviour has aborted it.
\* An aborted process takes no further step.
ProcessAlive ==
    /\ \A k \in 1..Len(frames) : frames[k].pc # "crashed"
    /\ \A c \in Callers : pc[c] # "aborted"

\* No host call made by a start or a stop has failed: no call has panicked.
NoHostFailure == \A c \in Callers : pc[c] # "panicked"

\* The user answers the permission dialog opened by request_permission.
GrantPermission ==
    /\ ~permission
    /\ hostLog.requests > 0
    /\ permission' = TRUE
    /\ UNCHANGED <<slot, readers, pc, op, local, ret, calls, hostLog, boxes, helpers,
                   frames, nonQrVars>>

\* A mutation of StartCheck: the guard of line 22 is missing.
StartCheckNoGuard(c) ==
    /\ pc[c] = "idle"
    /\ ProcessAlive
    /\ MayCall
    /\ CanRead
    /\ calls' = [calls EXCEPT ![c] = @ + 1]
    /\ op' = [op EXCEPT ![c] = "start"]
    /\ local' = [local EXCEPT ![c] = NoLocal]
    /\ pc' = [pc EXCEPT ![c] = "start_perm"]
    /\ ret' = [ret EXCEPT ![c] = "none"]
    /\ UNCHANGED <<slot, readers, permission, hostLog, boxes, helpers, frames, nonQrVars>>

\* start_qr_scanner, line 22-25: read the slot; return true if it is occupied.
StartCheck(c) ==
    /\ pc[c] = "idle"
    /\ ProcessAlive
    /\ MayCall
    /\ CanRead
    /\ calls' = [calls EXCEPT ![c] = @ + 1]
    /\ op' = [op EXCEPT ![c] = "start"]
    /\ local' = [local EXCEPT ![c] = NoLocal]
    /\ IF slot # None
         THEN /\ ret' = [ret EXCEPT ![c] = "true"]
              /\ pc' = pc
         ELSE /\ ret' = [ret EXCEPT ![c] = "none"]
              /\ pc' = [pc EXCEPT ![c] = "start_perm"]
    /\ UNCHANGED <<slot, readers, permission, hostLog, boxes, helpers, frames, nonQrVars>>

\* start_qr_scanner, line 27-37: has_permission / request_permission.  Both
\* unwrap every JNI result: when a call of has_permission fails the start
\* panics before the check is made, when a call of request_permission fails
\* it panics after the check and before the request.
StartPerm(c) ==
    /\ pc[c] = "start_perm"
    /\ ProcessAlive
    /\ \E host \in {"ok", "check_fails", "request_fails"} :
         IF host = "check_fails" \/ (host = "request_fails" /\ ~permission)
           THEN /\ hostLog' = IF host = "check_fails" THEN hostLog
                               ELSE [hostLog EXCEPT !.checks = @ + 1]
                /\ pc' = [pc EXCEPT ![c] = "panicked"]
                /\ ret' = [ret EXCEPT ![c] = "panic"]
           ELSE IF permission
             THEN /\ hostLog' = [hostLog EXCEPT !.checks = @ + 1]
                  /\ pc' = [pc EXCEPT ![c] = "start_create"]
                  /\ ret' = ret
             ELSE /\ hostLog' = [hostLog EXCEPT !.checks = @ + 1, !.requests = @ + 1]
                  /\ pc' = [pc EXCEPT ![c] = "idle"]
                  /\ ret' = [ret EXCEPT ![c] = "false"]
    /\ UNCHANGED <<slot, readers, op, local, calls, permission, boxes, helpers, frames,
                   nonQrVars>>

\* CameraHelper's constructor and start(), as create_camera_helper calls them:
\* the helper keeps the window pointer and starts delivering frames.
NewHelper(ptr) == [state |-> "running", ptr |-> ptr, stops |-> 0]

\* start_qr_scanner line 39 and create_camera_helper (line 62-128): leak the
\* window box, build and start the Java helper.  Every JNI call is unwrapped:
\* a Java exception panics, and the leaked box stays behind.  A failure up to
\* the call of start() (line 124) leaves no helper running; a failure of
\* new_global_ref (line 127) leaves the helper started on the leaked box,
\* with no reference to it in the slot.
StartCreate(c) ==
    /\ pc[c] = "start_create"
    /\ ProcessAlive
    /\ boxes' = Append(boxes, 0)
    /\ \E host \in {"ok", "fails_before_start", "global_ref_fails"} :
         IF host = "ok"
           THEN /\ helpers' = Append(helpers, NewHelper(Len(boxes) + 1))
                /\ local' = [local EXCEPT ![c] = [@ EXCEPT !.helper = Len(helpers) + 1,
                                                           !.ptr = Len(boxes) + 1]]
                /\ pc' = [pc EXCEPT ![c] = "start_install"]
                /\ ret' = ret
           ELSE /\ helpers' = IF host = "global_ref_fails"
                                THEN Append(helpers, NewHelper(Len(boxes) + 1))
                                ELSE helpers
                /\ local' = [local EXCEPT ![c] = [@ EXCEPT !.ptr = Len(boxes) + 1]]
                /\ pc' = [pc EXCEPT ![c] = "panicked"]
                /\ ret' = [ret EXCEPT ![c] = "panic"]
    /\ UNCHANGED <<slot, readers, op, calls, permission, hostLog, frames, nonQrVars>>

\* start_qr_scanner line 40-42: the right-hand side has been evaluated; take
\* the write lock, store the helper, return true.
StartInstall(c) ==
    /\ pc[c] = "start_install"
    /\ ProcessAlive
    /\ CanWrite
    /\ slot' = local[c].helper
    /\ pc' = [pc EXCEPT ![c] = "idle"]
    /\ ret' = [ret EXCEPT ![c] = "true"]
    /\ UNCHANGED <<readers, op, local, calls, permission, hostLog, boxes, helpers,
                   frames, nonQrVars>>

\* A mutation of StopRead: the `if let Some(..)` of line 46 always matches.
StopReadAlways(c) ==
    /\ pc[c] = "idle"
    /\ ProcessAlive
    /\ MayCall
    /\ CanRead
    /\ calls' = [calls EXCEPT ![c] = @ + 1]
    /\ op' = [op EXCEPT ![c] = "stop"]
    /\ ret' = [ret EXCEPT ![c] = "none"]
    /\ readers' = readers \cup {c}
    /\ local' = [local EXCEPT ![c] = [helper |-> slot, ptr |-> None, saw |-> slot # None]]
    /\ pc' = [pc EXCEPT ![c] = "stop_call"]
    /\ UNCHANGED <<slot, permission, hostLog, boxes, helpers, frames, nonQrVars>>

\* stop_qr_scanner line 46: take the read guard and look at the slot.  The
\* guard lives to the end of the `if let`; with an empty slot it is dropped at
\* once.
StopRead(c) ==
    /\ pc[c] = "idle"
    /\ ProcessAlive
    /\ MayCall
    /\ CanRead
    /\ calls' = [calls EXCEPT ![c] = @ + 1]
    /\ op' = [op EXCEPT ![c] = "stop"]
    /\ ret' = [ret EXCEPT ![c] = "none"]
    /\ IF slot # None
         THEN /\ readers' = readers \cup {c}
              /\ local' = [local EXCEPT ![c] = [helper |-> slot, ptr |-> None, saw |-> TRUE]]
              /\ pc' = [pc EXCEPT ![c] = "stop_call"]
         ELSE /\ readers' = readers
              /\ local' = [local EXCEPT ![c] = NoLocal]
              /\ pc' = [pc EXCEPT ![c] = "stop_write"]
    /\ UNCHANGED <<slot, permission, hostLog, boxes, helpers, frames, nonQrVars>>

\* CameraHelper.stop(): no further frame is delivered; the stored window
\* pointer is handed back.  Frames already delivered are not waited for.
HelperStopped(h) == [helpers EXCEPT ![h] = [@ EXCEPT !.state = "stopped", !.stops = @ + 1]]

\* stop_qr_scanner line 47-54: call the helper's stop(); the result is
\* unwrapped, so a Java exception panics (the read guard is released by the
\* unwinding, the slot keeps the helper).
StopCall(c) ==
    /\ pc[c] = "stop_call"
    /\ ProcessAlive
    /\ local[c].helper # None
    /\ \E ok \in BOOLEAN :
         IF ok
           THEN /\ helpers' = HelperStopped(local[c].helper)
                /\ local' = [local EXCEPT ![c] = [@ EXCEPT !.ptr = helpers[local[c].helper].ptr]]
                /\ pc' = [pc EXCEPT ![c] = "stop_free"]
                /\ readers' = readers
                /\ ret' = ret
           ELSE /\ helpers' = helpers
                /\ local' = local
                /\ pc' = [pc EXCEPT ![c] = "panicked"]
                /\ readers' = readers \ {c}
                /\ ret' = [ret EXCEPT ![c] = "panic"]
    /\ UNCHANGED <<slot, op, calls, permission, hostLog, boxes, frames, nonQrVars>>

\* A mutation of StopFree: the box is not turned back into a Box, so it is
\* not dropped.
StopFreeKeepBox(c) ==
    /\ pc[c] = "stop_free"
    /\ ProcessAlive
    /\ boxes' = boxes
    /\ readers' = readers \ {c}
    /\ pc' = [pc EXCEPT ![c] = "stop_write"]
    /\ UNCHANGED <<slot, op, local, ret, calls, permission, hostLog, helpers, frames,
                   nonQrVars>>

\* A mutation of StopFree: the read guard is bound to a variable of the
\* function and lives to its end.
StopFreeKeepGuard(c) ==
    /\ pc[c] = "stop_free"
    /\ ProcessAlive
    /\ boxes' = [boxes EXCEPT ![local[c].ptr] = @ + 1]
    /\ readers' = readers
    /\ pc' = [pc EXCEPT ![c] = "stop_write"]
    /\ UNCHANGED <<slot, op, local, ret, calls, permission, hostLog, helpers, frames,
                   nonQrVars>>

\* stop_qr_scanner line 56-57: Box::from_raw + drop, then the end of the
\* `if let` releases the read guard.  Dropping a box that another call has
\* dropped already is undefined: the call may go on or the process may
\* abort.
StopFree(c) ==
    /\ pc[c] = "stop_free"
    /\ ProcessAlive
    /\ boxes' = [boxes EXCEPT ![local[c].ptr] = @ + 1]
    /\ \E out \in IF boxes[local[c].ptr] = 0 THEN {"stop_write"}
                   ELSE {"stop_write", "aborted"} :
         /\ pc' = [pc EXCEPT ![c] = out]
         /\ readers' = IF out = "aborted" THEN readers ELSE readers \ {c}
    /\ UNCHANGED <<slot, op, local, ret, calls, permission, hostLog, helpers, frames,
                   nonQrVars>>

\* stop_qr_scanner line 59: take the write lock and empty the slot.
StopWrite(c) ==
    /\ pc[c] = "stop_write"
    /\ ProcessAlive
    /\ CanWrite
    /\ slot' = None
    /\ pc' = [pc EXCEPT ![c] = "idle"]
    /\ ret' = [ret EXCEPT ![c] = "unit"]
    /\ UNCHANGED <<readers, op, local, calls, permission, hostLog, boxes, helpers,
                   frames, nonQrVars>>

\* ---- qr::rotation_mode
\* The sizes of the frames the functions are applied to.
FrameSizes == {<<640, 480>>, <<1920, 1080>>}

\* A mutation of RotationMode: the quarter turns are not exchanged.
RotationModeSameSense(rotation, width, height) ==
    IF rotation >= 45 /\ rotation < 135
      THEN [mode |-> <<"Rotate90">>, width |-> height, height |-> width]
    ELSE IF rotation >= 135 /\ rotation < 225
      THEN [mode |-> <<"Rotate180">>, width |-> width, height |-> height]
    ELSE IF rotation >= 225 /\ rotation < 315
      THEN [mode |-> <<"Rotate270">>, width |-> height, height |-> width]
    ELSE [mode |-> <<>>, width |-> width, height |-> height]

\* qr::rotation_mode: the rotation handed to the yuv crate, None or Some, and
\* the dimensions of the rotated image.
RotationMode(rotation, width, height) ==
    IF rotation >= 45 /\ rotation < 135
      THEN [mode |-> <<"Rotate270">>, width |-> height, height |-> width]
    ELSE IF rotation >= 135 /\ rotation < 225
      THEN [mode |-> <<"Rotate180">>, width |-> width, height |-> height]
    ELSE IF rotation >= 225 /\ rotation < 315
      THEN [mode |-> <<"Rotate90">>, width |-> height, height |-> width]
    ELSE [mode |-> <<>>, width |-> width, height |-> height]

\* A running CameraHelper delivers a frame: Java calls handleImage on the
\* camera thread with the window pointer it was constructed with and with
\* the rotation, the width and the height of the frame (line 140-142).
\*   helper : the helper that delivered the frame
\*   used   : the rotation and the dimensions the frame was converted with
Deliver(h, limit, rotations, sizes) ==
    /\ Len(frames) < limit
    /\ ProcessAlive
    /\ h \in RunningHelpers
    /\ \E rotation \in rotations, size \in sizes :
         frames' = Append(frames, [pc |-> "entry", ptr |-> helpers[h].ptr, read |-> "none",
                                   helper |-> h, rotation |-> rotation,
                                   width |-> size[1], height |-> size[2], used |-> <<>>])
    /\ UNCHANGED <<slot, readers, pc, op, local, ret, calls, permission, hostLog, boxes,
                   helpers, nonQrVars>>

\* The frames of a device that is held upright.
DispatchFrame(h) == Deliver(h, MaxFrames, {0}, {<<640, 480>>})

\* The frames of a device that is turned while the helper runs.
DispatchTurned(h) == Deliver(h, MaxTurned, {0, 90}, FrameSizes)

\* Java_CameraHelper_handleImage line 145-197: the pointer is turned into a
\* reference (no read yet), the planes are converted and rotated by
\* rotation_mode of the rotation, the width and the height this invocation
\* was called with (line 174).  The results of convert_byte_array (line
\* 147-149), yuv420_to_rgb (line 172) and rotate_rgb (line 187) are
\* unwrapped: a failure panics inside the extern "system" function, which
\* cannot unwind, and the process aborts.
HandleImageConvert(k) ==
    /\ frames[k].pc = "entry"
    /\ ProcessAlive
    /\ \E out \in {"converted", "crashed"} :
         frames' = [frames EXCEPT ![k] =
                      [@ EXCEPT !.pc = out,
                                !.used = IF out = "converted"
                                           THEN <<RotationMode(frames[k].rotation,
                                                               frames[k].width,
                                                               frames[k].height)>>
                                           ELSE @]]
    /\ UNCHANGED <<slot, readers, pc, op, local, ret, calls, permission, hostLog, boxes,
                   helpers, nonQrVars>>

\* Java_CameraHelper_handleImage line 200-204: upgrade_in_event_loop reads
\* the Weak<MainWindow> behind the pointer and its result is unwrapped: with
\* no event loop running the panic aborts the process.  Reading a freed box
\* is undefined: the call may go through or the process may crash.  So is
\* reading a pointer that is no window box (the pointer a helper was started
\* with by JavaHelpers::start_camera).
HandleImageEnqueue(k) ==
    /\ frames[k].pc = "converted"
    /\ ProcessAlive
    /\ \E out \in {"done", "crashed"} :
         frames' = [frames EXCEPT ![k] =
                      [@ EXCEPT !.pc = out,
                                !.read = IF frames[k].ptr \notin 1..Len(boxes) THEN "foreign"
                                         ELSE IF boxes[frames[k].ptr] = 0 THEN "live"
                                         ELSE "freed"]]
    /\ UNCHANGED <<slot, readers, pc, op, local, ret, calls, permission, hostLog, boxes,
                   helpers, nonQrVars>>

\* =========================================================================
\*                              src/src/java.rs
\* =========================================================================
\* JavaHelpers holds the CameraHelper that load_helper_objects constructed
\* (lib.rs:79), the first of `helpers`.  start_camera, stop_camera and
\* is_camera_running act on it; each is one JNI call whose result is
\* unwrapped.

\* The leaked Box<Rc<AppState>> of lib.rs:92, the pointer start_camera is
\* given: an address that is no window box.
StateRaw == 30464

\* A call of the JavaHelpers API by caller c begins and ends in one step.
JavaCall(c, name, result) ==
    /\ pc[c] = "idle"
    /\ ProcessAlive
    /\ MayCall
    /\ calls' = [calls EXCEPT ![c] = @ + 1]
    /\ op' = [op EXCEPT ![c] = name]
    /\ local' = [local EXCEPT ![c] = NoLocal]
    /\ ret' = [ret EXCEPT ![c] = result]
    /\ pc' = [pc EXCEPT ![c] = IF result = "panic" THEN "panicked" ELSE "idle"]
    /\ UNCHANGED <<slot, readers, permission, hostLog, boxes, frames, nonQrVars>>

\* JavaHelpers::start_camera (java.rs:31-39): "start", "(J)V" with the
\* pointer it is given; the helper keeps the pointer and starts delivering
\* frames.
StartCamera(c, h) ==
    \E host \in {"ok", "fails"} :
        IF host = "ok"
          THEN JavaCall(c, "start_camera", "unit")
               /\ helpers' = [helpers EXCEPT ![h] = [@ EXCEPT !.state = "running",
                                                              !.ptr = StateRaw]]
          ELSE JavaCall(c, "start_camera", "panic") /\ helpers' = helpers

\* JavaHelpers::stop_camera (java.rs:41-43): "stop", "()V"; no pointer comes
\* back and nothing is freed.
StopCamera(c, h) ==
    \E host \in {"ok", "fails"} :
        IF host = "ok"
          THEN JavaCall(c, "stop_camera", "unit") /\ helpers' = HelperStopped(h)
          ELSE JavaCall(c, "stop_camera", "panic") /\ helpers' = helpers

\* JavaHelpers::is_camera_running (java.rs:24-29): "isRunning", "()Z".
IsCameraRunning(c, h) ==
    /\ helpers' = helpers
    /\ \E host \in {"ok", "fails"} :
         IF host = "ok"
           THEN JavaCall(c, "is_camera_running",
                         IF h \in RunningHelpers THEN "true" ELSE "false")
           ELSE JavaCall(c, "is_camera_running", "panic")

\* =========================================================================
\*                            src/src/camera.rs
\* =========================================================================
\* A native handle is <<type, n>>.  An Option<T> field is <<>> (None) or <<v>>.
\* A native call made by drop glue is [op, h]: the function and the handle it
\* is applied to.

Call(o, h) == [op |-> o, h |-> h]

ReleaseOps == {"ACameraManager_delete", "ACameraManager_deleteCameraIdList",
               "ACameraMetadata_free", "ACameraDevice_close", "AImageReader_delete",
               "ACameraOutputTarget_free", "ACaptureSessionOutputContainer_free",
               "ACaptureSessionOutput_free", "ACameraCaptureSession_close",
               "ACaptureRequest_free", "AImage_delete"}

\* impl Drop for OutputTarget
DropOutputTarget(t) == <<Call("ACameraOutputTarget_free", t.h)>>

\* impl Drop for SessionOutput
DropSessionOutput(o) == <<Call("ACaptureSessionOutput_free", o.h)>>

\* impl Drop for Image
DropImage(i) == <<Call("AImage_delete", i.h)>>

\* impl Drop for CameraIdList
DropCameraIdList(l) == <<Call("ACameraManager_deleteCameraIdList", l.h)>>

\* impl Drop for CameraMetadata
DropCameraMetadata(m) == <<Call("ACameraMetadata_free", m.h)>>

\* impl Drop for CameraManager
DropCameraManager(m) == <<Call("ACameraManager_delete", m.h)>>

\* impl Drop for ImageReader: a fixed sleep, then the delete.
DropImageReader(r) == <<Call("thread_sleep", r.h), Call("AImageReader_delete", r.h)>>

DropOptTarget(o) == IF o = <<>> THEN <<>> ELSE DropOutputTarget(o[1])
DropOptOutput(o) == IF o = <<>> THEN <<>> ELSE DropSessionOutput(o[1])

\* std::mem::take on an Option field: the value is moved out, None is left.
MemTake(o) == [taken |-> o, left |-> <<>>]

\* A mutation of DropOutputContainer: the output is dropped before it is
\* removed from the container.
DropOutputContainerUnlinkLast(c) ==
    DropOptOutput(MemTake(c.output).taken)
    \o (IF c.output # <<>>
          THEN <<Call("ACaptureSessionOutputContainer_remove", c.h)>>
          ELSE <<>>)
    \o <<Call("ACaptureSessionOutputContainer_free", c.h)>>

\* A mutation of DropOutputContainer: the output taken out is forgotten.
DropOutputContainerLeak(c) ==
    (IF c.output # <<>>
       THEN <<Call("ACaptureSessionOutputContainer_remove", c.h)>>
       ELSE <<>>)
    \o <<Call("ACaptureSessionOutputContainer_free", c.h)>>

\* impl Drop for OutputContainer: unlink the output, drop it, free the
\* container; the field glue then finds the field empty.
DropOutputContainer(c) ==
    (IF c.output # <<>>
       THEN <<Call("ACaptureSessionOutputContainer_remove", c.h)>>
       ELSE <<>>)
    \o DropOptOutput(MemTake(c.output).taken)
    \o <<Call("ACaptureSessionOutputContainer_free", c.h)>>
    \o DropOptOutput(MemTake(c.output).left)

DropOptContainer(o) == IF o = <<>> THEN <<>> ELSE DropOutputContainer(o[1])

\* A mutation of DropCameraDevice: the container is dropped in place, not
\* taken, so the field glue drops it again.
DropCameraDeviceNoTake(d) ==
    DropOptContainer(d.container)
    \o <<Call("ACameraDevice_close", d.h)>>
    \o DropOptContainer(d.container)

\* impl Drop for CameraDevice: take and drop the container, close the device.
DropCameraDevice(d) ==
    DropOptContainer(MemTake(d.container).taken)
    \o <<Call("ACameraDevice_close", d.h)>>
    \o DropOptContainer(MemTake(d.container).left)

\* A mutation of DropCaptureRequest: the target is taken out and dropped
\* before the request is freed.
DropCaptureRequestTargetFirst(r) ==
    (IF r.target # <<>> THEN <<Call("ACaptureRequest_removeTarget", r.h)>> ELSE <<>>)
    \o DropOptTarget(MemTake(r.target).taken)
    \o <<Call("ACaptureRequest_free", r.h)>>
    \o DropOptTarget(MemTake(r.target).left)

\* impl Drop for CaptureRequest: unlink the target, free the request; the
\* target field is dropped by the field glue after that.
DropCaptureRequest(r) ==
    (IF r.target # <<>> THEN <<Call("ACaptureRequest_removeTarget", r.h)>> ELSE <<>>)
    \o <<Call("ACaptureRequest_free", r.h)>>
    \o DropOptTarget(r.target)

DropOptRequest(o) == IF o = <<>> THEN <<>> ELSE DropCaptureRequest(o[1])

\* impl Drop for CaptureSession: close the session; the request field is
\* dropped by the field glue after that.
DropCaptureSession(s) ==
    <<Call("ACameraCaptureSession_close", s.h)>> \o DropOptRequest(s.request)

\* A mutation of DropCameraContext: device declared before session.
DropCameraContextDeviceFirst(x) ==
    DropCameraDevice(x.device)
    \o DropCaptureSession(x.session)
    \o DropCameraManager(x.manager)
    \o DropImageReader(x.image_reader)

\* struct CameraContext has no Drop of its own: its fields are dropped in
\* declaration order session, device, manager, image_reader.
DropCameraContext(x) ==
    DropCaptureSession(x.session)
    \o DropCameraDevice(x.device)
    \o DropCameraManager(x.manager)
    \o DropImageReader(x.image_reader)

\* ------------------------------------------------------- native handles

FreshN(nat, type) == 1 + Cardinality({h \in DOMAIN nat : h[1] = type})
Fresh(type) == <<type, FreshN(native, type)>>

\* `nat` with one more handle of the type, released `count` times so far.
WithNew(nat, type, count) == nat @@ (<<type, FreshN(nat, type)>> :> count)

\* The number of release calls a drop makes on handle h.
ReleasesIn(drop, h) ==
    Cardinality({i \in 1..Len(drop) : drop[i].h = h /\ drop[i].op \in ReleaseOps})

\* `nat` with a CameraIdList created and dropped again.
WithIdList(nat) ==
    LET h == <<"idlist", FreshN(nat, "idlist")>>
    IN nat @@ (h :> ReleasesIn(DropCameraIdList([h |-> h]), h))

\* `nat` with n CameraMetadata created and dropped again.
RECURSIVE WithMetas(_, _)
WithMetas(nat, n) ==
    IF n = 0 THEN nat
    ELSE LET h == <<"meta", FreshN(nat, "meta")>>
         IN WithMetas(nat @@ (h :> ReleasesIn(DropCameraMetadata([h |-> h]), h)), n - 1)

Released(h) == native[h] > 0

\* The process is gone once a panic has reached an extern "C" frame.
Aborted == \E k \in 1..Len(cbs) : cbs[k].pc = "aborted"

\* --------------------------------------------------- building the graph

EmptyLocals == [manager |-> <<>>, device |-> <<>>, reader |-> <<>>, target |-> <<>>,
                container |-> <<>>, output |-> <<>>, session |-> <<>>, request |-> <<>>]

InitCamera ==
    /\ cam = "idle"
    /\ bl = EmptyLocals
    /\ ctx = <<>>
    /\ pending = <<>>
    /\ log = <<>>
    /\ native = <<>>
    /\ cycles = 0
    /\ cbs = <<>>
    /\ uiQueue = <<>>
    /\ handlers = <<>>

\* Unwinding drops the builder's locals in reverse order of declaration.
Unwind(b) ==
    DropOptRequest(b.request)
    \o (IF b.session = <<>> THEN <<>> ELSE DropCaptureSession(b.session[1]))
    \o DropOptOutput(b.output)
    \o DropOptContainer(b.container)
    \o DropOptTarget(b.target)
    \o (IF b.reader = <<>> THEN <<>> ELSE DropImageReader(b.reader[1]))
    \o (IF b.device = <<>> THEN <<>> ELSE DropCameraDevice(b.device[1]))
    \o (IF b.manager = <<>> THEN <<>> ELSE DropCameraManager(b.manager[1]))

\* A native call returned a non-zero status (panic!("NOT GOOD")) or a null
\* handle (the unwrap of NonNull::new).  The values owned by the failing
\* function (`inner`) are dropped first, then the builder's locals `b`.
Panic(inner, b, nat) ==
    /\ cam' = "unwinding"
    /\ pending' = inner \o Unwind(b)
    /\ bl' = EmptyLocals
    /\ log' = <<>>
    /\ native' = nat
    /\ UNCHANGED <<ctx, cbs>>

\* The call succeeded: go on with the next step.
Goto(next, b, nat) ==
    /\ cam' = next
    /\ bl' = b
    /\ native' = nat
    /\ UNCHANGED <<ctx, pending, log, cbs>>

\* CameraManager::new: a new build begins, the log of the last drop is
\* cleared.
BuildManager ==
    /\ cam = "idle"
    /\ ~Aborted
    /\ cycles < MaxCycles
    /\ cycles' = cycles + 1
    /\ \E ok \in BOOLEAN :
         IF ok
           THEN /\ cam' = "camera_id"
                /\ bl' = [bl EXCEPT !.manager = <<[h |-> Fresh("manager")]>>]
                /\ native' = WithNew(native, "manager", 0)
                /\ log' = <<>>
                /\ UNCHANGED <<ctx, pending, cbs>>
           ELSE Panic(<<>>, bl, native)
    /\ UNCHANGED <<uiQueue, handlers, nonCamVars>>

\* CameraManager::get_camera_id: the id list and one CameraMetadata per
\* camera looked at are created and dropped inside the call, also when it
\* panics (list = 0: getCameraIdList failed; n: metadata opened before the
\* failure).
BuildCameraId ==
    /\ cam = "camera_id"
    /\ ~Aborted
    /\ \E ok \in BOOLEAN, list \in 0..1, n \in 0..NumCameras :
         /\ ok => (list = 1 /\ n = NumCameras)
         /\ list = 0 => n = 0
         /\ LET nat == IF list = 1 THEN WithMetas(WithIdList(native), n)
                                   ELSE native
            IN IF ok THEN Goto("stream_cfg", bl, nat) ELSE Panic(<<>>, bl, nat)
    /\ UNCHANGED <<cycles, uiQueue, handlers, nonCamVars>>

\* CameraManager::get_stream_configuration and camera_rotation: each opens
\* one CameraMetadata and drops it (n = 0: getCameraCharacteristics failed).
BuildStreamCfg ==
    /\ cam \in {"stream_cfg", "rotation"}
    /\ ~Aborted
    /\ \E ok \in BOOLEAN, n \in 0..1 :
         /\ ok => n = 1
         /\ IF ok THEN Goto(IF cam = "stream_cfg" THEN "rotation" ELSE "open", bl,
                            WithMetas(native, n))
                  ELSE Panic(<<>>, bl, WithMetas(native, n))
    /\ UNCHANGED <<cycles, uiQueue, handlers, nonCamVars>>

\* CameraManager::open_camera
BuildOpen ==
    /\ cam = "open"
    /\ ~Aborted
    /\ \E ok \in BOOLEAN :
         IF ok
           THEN Goto("reader",
                     [bl EXCEPT !.device = <<[h |-> Fresh("device"), container |-> <<>>]>>],
                     WithNew(native, "device", 0))
           ELSE Panic(<<>>, bl, native)
    /\ UNCHANGED <<cycles, uiQueue, handlers, nonCamVars>>

\* CameraManager::create_image_reader
BuildReader ==
    /\ cam = "reader"
    /\ ~Aborted
    /\ \E ok \in BOOLEAN :
         IF ok
           THEN Goto("window",
                     [bl EXCEPT !.reader = <<[h |-> Fresh("reader"), listener |-> FALSE]>>],
                     WithNew(native, "reader", 0))
           ELSE Panic(<<>>, bl, native)
    /\ UNCHANGED <<cycles, uiQueue, handlers, nonCamVars>>

\* ImageReader::get_window: the window belongs to the reader, NativeWindow
\* has no Drop.
BuildWindow ==
    /\ cam = "window"
    /\ ~Aborted
    /\ \E ok \in BOOLEAN :
         IF ok THEN Goto("target", bl, native) ELSE Panic(<<>>, bl, native)
    /\ UNCHANGED <<cycles, uiQueue, handlers, nonCamVars>>

\* NativeWindow::create_target
BuildTarget ==
    /\ cam = "target"
    /\ ~Aborted
    /\ \E ok \in BOOLEAN :
         IF ok
           THEN Goto("container", [bl EXCEPT !.target = <<[h |-> Fresh("target")]>>],
                     WithNew(native, "target", 0))
           ELSE Panic(<<>>, bl, native)
    /\ UNCHANGED <<cycles, uiQueue, handlers, nonCamVars>>

\* NativeWindow::create_container, line 411-420: the container.
BuildContainer ==
    /\ cam = "container"
    /\ ~Aborted
    /\ \E ok \in BOOLEAN :
         IF ok
           THEN Goto("output",
                     [bl EXCEPT !.container = <<[h |-> Fresh("container"), output |-> <<>>]>>],
                     WithNew(native, "container", 0))
           ELSE Panic(<<>>, bl, native)
    /\ UNCHANGED <<cycles, uiQueue, handlers, nonCamVars>>

\* NativeWindow::create_container, line 422-430: the session output.
BuildOutput ==
    /\ cam = "output"
    /\ ~Aborted
    /\ \E ok \in BOOLEAN :
         IF ok
           THEN Goto("add_output", [bl EXCEPT !.output = <<[h |-> Fresh("output")]>>],
                     WithNew(native, "output", 0))
           ELSE Panic(<<>>, bl, native)
    /\ UNCHANGED <<cycles, uiQueue, handlers, nonCamVars>>

\* NativeWindow::create_container, line 432-441: add the output to the
\* container and move it into the container's field.
BuildAddOutput ==
    /\ cam = "add_output"
    /\ ~Aborted
    /\ \E ok \in BOOLEAN :
         IF ok
           THEN Goto("session",
                     [bl EXCEPT !.container = <<[@[1] EXCEPT !.output = bl.output]>>,
                                !.output = <<>>],
                     native)
           ELSE Panic(<<>>, bl, native)
    /\ UNCHANGED <<cycles, uiQueue, handlers, nonCamVars>>

\* CameraDevice::create_session: the container is moved into the call.  A
\* non-zero status panics while the call still owns the container (line
\* 221-223).  After that the device keeps the container (line 225), and a
\* null session panics at the unwrap of line 227: no session was made, the
\* container is dropped with the device.
BuildSession ==
    /\ cam = "session"
    /\ ~Aborted
    /\ \E out \in {"ok", "status", "null"} :
         LET kept == [bl EXCEPT !.device = <<[@[1] EXCEPT !.container = bl.container]>>,
                                !.container = <<>>]
         IN CASE out = "ok" ->
                   Goto("request",
                        [kept EXCEPT !.session = <<[h |-> Fresh("session"),
                                                    request |-> <<>>]>>],
                        WithNew(native, "session", 0))
              [] out = "status" ->
                   Panic(DropOptContainer(bl.container), [bl EXCEPT !.container = <<>>],
                         native)
              [] out = "null" -> Panic(<<>>, kept, native)
    /\ UNCHANGED <<cycles, uiQueue, handlers, nonCamVars>>

\* CameraDevice::create_request
BuildRequest ==
    /\ cam = "request"
    /\ ~Aborted
    /\ \E ok \in BOOLEAN :
         IF ok
           THEN Goto("add_target",
                     [bl EXCEPT !.request = <<[h |-> Fresh("request"), target |-> <<>>]>>],
                     WithNew(native, "request", 0))
           ELSE Panic(<<>>, bl, native)
    /\ UNCHANGED <<cycles, uiQueue, handlers, nonCamVars>>

\* CaptureRequest::add_target: the target is moved into the call; on success
\* the request keeps it.
BuildAddTarget ==
    /\ cam = "add_target"
    /\ ~Aborted
    /\ \E ok \in BOOLEAN :
         IF ok
           THEN Goto("listener",
                     [bl EXCEPT !.request = <<[@[1] EXCEPT !.target = bl.target]>>,
                                !.target = <<>>],
                     native)
           ELSE Panic(DropOptTarget(bl.target), [bl EXCEPT !.target = <<>>], native)
    /\ UNCHANGED <<cycles, uiQueue, handlers, nonCamVars>>

\* The stream configurations and rotations an ImageHandler is made with.
StreamConfigurations == {[format |-> "JPEG", width |-> 640, height |-> 480]}
ImageRotations == {"Deg0", "Deg90"}

\* ImageHandler::new
NewImageHandler(sc, rotation) == [stream_configuration |-> sc, rotation |-> rotation]

\* ImageReader::add_listener, with the ImageHandler made for it: the handler
\* lives behind the raw pointer handed to the reader.
BuildListener ==
    /\ cam = "listener"
    /\ ~Aborted
    /\ \E sc \in StreamConfigurations, rotation \in ImageRotations :
         handlers' = Append(handlers, NewImageHandler(sc, rotation))
    /\ \E ok \in BOOLEAN :
         IF ok
           THEN Goto("start", [bl EXCEPT !.reader = <<[@[1] EXCEPT !.listener = TRUE]>>],
                     native)
           ELSE Panic(<<>>, bl, native)
    /\ UNCHANGED <<cycles, uiQueue, nonCamVars>>

\* CaptureSession::start: the request is moved into the call; on success the
\* session keeps it.
BuildStart ==
    /\ cam = "start"
    /\ ~Aborted
    /\ \E ok \in BOOLEAN :
         IF ok
           THEN Goto("install",
                     [bl EXCEPT !.session = <<[@[1] EXCEPT !.request = bl.request]>>,
                                !.request = <<>>],
                     native)
           ELSE Panic(DropOptRequest(bl.request), [bl EXCEPT !.request = <<>>], native)
    /\ UNCHANGED <<cycles, uiQueue, handlers, nonCamVars>>

\* The started graph is moved into a CameraContext and installed.
Install ==
    /\ cam = "install"
    /\ ~Aborted
    /\ ctx' = <<[session |-> bl.session[1], device |-> bl.device[1],
                 manager |-> bl.manager[1], image_reader |-> bl.reader[1]]>>
    /\ bl' = EmptyLocals
    /\ cam' = "streaming"
    /\ UNCHANGED <<pending, log, native, cycles, cbs, uiQueue, handlers, nonCamVars>>

\* The installed CameraContext is dropped.
StopCapture ==
    /\ cam = "streaming"
    /\ ~Aborted
    /\ pending' = DropCameraContext(ctx[1])
    /\ ctx' = <<>>
    /\ log' = <<>>
    /\ cam' = "teardown"
    /\ UNCHANGED <<bl, native, cycles, cbs, uiQueue, handlers, nonCamVars>>

\* The unlink calls of the Drop implementations: they return a status.
UnlinkOps == {"ACaptureRequest_removeTarget", "ACaptureSessionOutputContainer_remove"}

\* A mutation of DropStep: a failed unlink ends the drop.
DropStepPropagate ==
    /\ cam \in {"teardown", "unwinding"}
    /\ ~Aborted
    /\ pending # <<>>
    /\ LET c == Head(pending)
       IN \E ok \in BOOLEAN :
            /\ c.op \notin UnlinkOps => ok
            /\ native' = IF c.op \in ReleaseOps THEN [native EXCEPT ![c.h] = @ + 1]
                                                ELSE native
            /\ log' = IF c.op = "thread_sleep" THEN log
                      ELSE Append(log, [op |-> c.op, h |-> c.h, ok |-> ok])
            /\ pending' = IF ok THEN Tail(pending) ELSE <<>>
    /\ UNCHANGED <<cam, bl, ctx, cycles, cbs, uiQueue, handlers, nonCamVars>>

\* The drop glue makes its next native call.  The status an unlink call
\* returns is not looked at: the drop goes on with its next call either way.
DropStep ==
    /\ cam \in {"teardown", "unwinding"}
    /\ ~Aborted
    /\ pending # <<>>
    /\ LET c == Head(pending)
       IN \E ok \in BOOLEAN :
            /\ c.op \notin UnlinkOps => ok
            /\ native' = IF c.op \in ReleaseOps THEN [native EXCEPT ![c.h] = @ + 1]
                                                ELSE native
            /\ log' = IF c.op = "thread_sleep" THEN log
                      ELSE Append(log, [op |-> c.op, h |-> c.h, ok |-> ok])
    /\ pending' = Tail(pending)
    /\ UNCHANGED <<cam, bl, ctx, cycles, cbs, uiQueue, handlers, nonCamVars>>

\* The drop glue has finished: a teardown leaves the pipeline idle, an
\* unwinding leaves the panic with the caller.
DropDone ==
    /\ cam \in {"teardown", "unwinding"}
    /\ ~Aborted
    /\ pending = <<>>
    /\ cam' = IF cam = "teardown" THEN "idle" ELSE "panicked"
    /\ UNCHANGED <<bl, ctx, pending, log, native, cycles, cbs, uiQueue, handlers, nonCamVars>>

\* ------------------------------------------------------- frame listener

\* The camera service calls the registered listener on one of its threads,
\* with the pointer to the ImageHandler of the running pipeline.
\*   acq : the number of the Image the invocation acquired, kept after release
\*   used: the rotation and the dimensions the invocation converted with
Dispatch(limit) ==
    /\ cam = "streaming"
    /\ ~Aborted
    /\ Len(cbs) < limit
    /\ cbs' = Append(cbs, [pc |-> "entry", reader |-> ctx[1].image_reader.h,
                           image |-> <<>>, stale |-> FALSE, acq |-> <<>>,
                           handler |-> Len(handlers), used |-> <<>>])
    /\ UNCHANGED <<cam, bl, ctx, pending, log, native, cycles, uiQueue, handlers, nonCamVars>>

\* The invocations of a run of the pipeline.
CbDispatch == Dispatch(MaxImages)

\* The invocations of a pipeline that streams, on several service threads at
\* once.
ListenerDispatch == Dispatch(MaxThreads)

\* ImageHandler::acquire_latest_image: no check of the reader.  A non-zero
\* status panics (inside the extern "C" listener: the process aborts).  On a
\* deleted reader the call is undefined: it may fail or hand out an image.
CbAcquire(k) ==
    /\ cbs[k].pc = "entry"
    /\ ~Aborted
    /\ \E ok \in BOOLEAN :
         IF ok
           THEN /\ cbs' = [cbs EXCEPT ![k] = [@ EXCEPT !.pc = "acquired",
                                                       !.image = <<[h |-> Fresh("image")]>>,
                                                       !.acq = <<Fresh("image")[2]>>,
                                                       !.stale = Released(cbs[k].reader)]]
                /\ native' = WithNew(native, "image", 0)
           ELSE /\ cbs' = [cbs EXCEPT ![k] = [@ EXCEPT !.pc = "aborted",
                                                       !.stale = Released(cbs[k].reader)]]
                /\ native' = native
    /\ UNCHANGED <<cam, bl, ctx, pending, log, cycles, uiQueue, handlers, nonCamVars>>

\* A mutation of CreateSlintImage: the buffer keeps the configured size.
CreateSlintImageConfiguredSize(hd) ==
    LET sc == hd.stream_configuration
    IN [rotation |-> hd.rotation, width |-> sc.width, height |-> sc.height]

\* ImageHandler::create_slint_image, line 129-135: the rotation applied and
\* the dimensions of the pixel buffer.
CreateSlintImage(hd) ==
    LET sc == hd.stream_configuration
    IN CASE hd.rotation = "Deg0" ->
              [rotation |-> "none", width |-> sc.width, height |-> sc.height]
         [] hd.rotation = "Deg90" ->
              [rotation |-> "rotate90", width |-> sc.height, height |-> sc.width]
         [] hd.rotation = "Deg180" ->
              [rotation |-> "rotate180", width |-> sc.width, height |-> sc.height]
         [] hd.rotation = "Deg270" ->
              [rotation |-> "rotate270", width |-> sc.height, height |-> sc.width]

\* ImageHandler::create_slint_image: read the plane, decode, rotate.  A
\* failure panics: the Image is dropped by the unwinding, then the process
\* aborts at the extern "C" frame.
CbConvert(k) ==
    /\ cbs[k].pc = "acquired"
    /\ ~Aborted
    /\ \E ok \in BOOLEAN :
         IF ok
           THEN /\ cbs' = [cbs EXCEPT ![k] = [@ EXCEPT !.pc = "converted",
                                                       !.used = <<CreateSlintImage(
                                                                    handlers[cbs[k].handler])>>]]
                /\ native' = native
           ELSE /\ cbs' = [cbs EXCEPT ![k] = [@ EXCEPT !.pc = "aborted", !.image = <<>>]]
                /\ native' = [native EXCEPT ![DropImage(cbs[k].image[1])[1].h] = @ + 1]
    /\ UNCHANGED <<cam, bl, ctx, pending, log, cycles, uiQueue, handlers, nonCamVars>>

\* A mutation of CbRelease: the Image is forgotten, not dropped.
CbReleaseForget(k) ==
    /\ cbs[k].pc = "converted"
    /\ ~Aborted
    /\ cbs' = [cbs EXCEPT ![k] = [@ EXCEPT !.pc = "released", !.image = <<>>]]
    /\ native' = native
    /\ UNCHANGED <<cam, bl, ctx, pending, log, cycles, uiQueue, handlers, nonCamVars>>

\* on_image_available line 84: the block ends, the Image is dropped.
CbRelease(k) ==
    /\ cbs[k].pc = "converted"
    /\ ~Aborted
    /\ cbs' = [cbs EXCEPT ![k] = [@ EXCEPT !.pc = "released", !.image = <<>>]]
    /\ native' = [native EXCEPT ![DropImage(cbs[k].image[1])[1].h] = @ + 1]
    /\ UNCHANGED <<cam, bl, ctx, pending, log, cycles, uiQueue, handlers, nonCamVars>>

\* on_image_available line 87-91: upgrade_in_event_loop hands the pixel
\* buffer to the UI event loop; its result is unwrapped.
CbEnqueue(k) ==
    /\ cbs[k].pc = "released"
    /\ ~Aborted
    /\ \E ok \in BOOLEAN :
         IF ok
           THEN /\ cbs' = [cbs EXCEPT ![k] = [@ EXCEPT !.pc = "done"]]
                /\ uiQueue' = Append(uiQueue, [frame |-> cbs[k].acq[1],
                                               width |-> cbs[k].used[1].width,
                                               height |-> cbs[k].used[1].height])
           ELSE /\ cbs' = [cbs EXCEPT ![k] = [@ EXCEPT !.pc = "aborted"]]
                /\ uiQueue' = uiQueue
    /\ UNCHANGED <<cam, bl, ctx, pending, log, native, cycles, handlers, nonCamVars>>

\* ------------------------------------------- a CameraDevice on its own
\* A caller that holds one CameraDevice, makes OutputContainers and calls
\* create_session with them, in any order, and drops what it holds.
\*   device   : the CameraDevice held, or None
\*   loose    : an OutputContainer made and not yet passed on, or None
\*   sessions : the CaptureSessions held
\*   backing  : for each session made, the container it was made from
\*   native   : native handle -> number of times its release function ran

NoDevice == [pc |-> "new", device |-> <<>>, loose |-> <<>>, sessions |-> <<>>,
             backing |-> <<>>, native |-> <<>>]

\* The native map after the calls of a drop have been made.
RECURSIVE Perform(_, _)
Perform(nat, drop) ==
    IF drop = <<>> THEN nat
    ELSE Perform(IF Head(drop).op \in ReleaseOps
                   THEN [nat EXCEPT ![Head(drop).h] = @ + 1]
                   ELSE nat,
                 Tail(drop))

\* Dropping a Vec of sessions, last made first.
RECURSIVE DropSessions(_)
DropSessions(ss) ==
    IF ss = <<>> THEN <<>>
    ELSE DropCaptureSession(ss[Len(ss)]) \o DropSessions(SubSeq(ss, 1, Len(ss) - 1))

\* A panic in a call made by the caller: the values owned by the failing
\* function (`inner`) are dropped first, then what the caller holds, the
\* loose container, the sessions and the device.
DevPanic(inner, d) ==
    [d EXCEPT !.pc = "panicked",
              !.device = <<>>,
              !.loose = <<>>,
              !.sessions = <<>>,
              !.native = Perform(d.native,
                                 inner
                                 \o DropOptContainer(d.loose)
                                 \o DropSessions(d.sessions)
                                 \o (IF d.device = <<>> THEN <<>>
                                     ELSE DropCameraDevice(d.device[1])))]

\* CameraManager::open_camera: a non-zero status (line 672) or a null device
\* (line 675) panics, no device was made.
DevOpen ==
    /\ dv.pc = "new"
    /\ \E ok \in BOOLEAN :
         dv' = IF ok
                 THEN [dv EXCEPT !.pc = "open",
                                 !.device = <<[h |-> <<"device", 1>>, container |-> <<>>]>>,
                                 !.native = WithNew(dv.native, "device", 0)]
                 ELSE DevPanic(<<>>, dv)
    /\ UNCHANGED nonDevVars

\* NativeWindow::create_container: a container with its session output.  It
\* panics with no container made (line 416, 420), with the container and no
\* output (line 427, 430: the container is dropped without an output), or
\* with both when the output cannot be added (line 437: the output local is
\* dropped, then the container, whose output field is still None).
DevContainer ==
    /\ dv.pc = "open"
    /\ dv.loose = <<>>
    /\ FreshN(dv.native, "container") <= MaxSessions
    /\ LET o == [h |-> <<"output", FreshN(dv.native, "output")>>]
           c == [h |-> <<"container", FreshN(dv.native, "container")>>, output |-> <<>>]
           withC == WithNew(dv.native, "container", 0)
           withCO == WithNew(withC, "output", 0)
       IN \E out \in {"ok", "no_container", "no_output", "not_added"} :
            dv' = CASE out = "ok" ->
                         [dv EXCEPT !.loose = <<[c EXCEPT !.output = <<o>>]>>,
                                    !.native = withCO]
                    [] out = "no_container" -> DevPanic(<<>>, dv)
                    [] out = "no_output" ->
                         DevPanic(DropOutputContainer(c), [dv EXCEPT !.native = withC])
                    [] out = "not_added" ->
                         DevPanic(DropSessionOutput(o) \o DropOutputContainer(c),
                                  [dv EXCEPT !.native = withCO])
    /\ UNCHANGED nonDevVars

\* CameraDevice::create_session, the native call succeeded (line 225): the
\* assignment to self.container drops the container the device held before.
KeepContainer(d, container, nat) ==
    [device |-> [d EXCEPT !.container = container],
     native |-> Perform(nat, DropOptContainer(d.container))]

\* CameraDevice::create_session called with the loose container.  A non-zero
\* status panics (line 221-223): the container handed in is dropped, then
\* what the caller holds.  A null session panics after the device has taken
\* the container (line 225-227).
DevCreateSession ==
    /\ dv.pc = "open"
    /\ dv.device # <<>>
    /\ dv.loose # <<>>
    /\ \E out \in {"ok", "status", "null"} :
         LET r == KeepContainer(dv.device[1], dv.loose, dv.native)
             session == [h |-> <<"session", FreshN(dv.native, "session")>>,
                         request |-> <<>>]
         IN dv' = CASE out = "ok" ->
                         [dv EXCEPT !.device = <<r.device>>,
                                    !.loose = <<>>,
                                    !.sessions = Append(@, session),
                                    !.backing = @ @@ (session.h :> dv.loose[1].h),
                                    !.native = WithNew(r.native, "session", 0)]
                    [] out = "status" -> DevPanic(<<>>, dv)
                    [] out = "null" ->
                         DevPanic(<<>>, [dv EXCEPT !.device = <<r.device>>,
                                                   !.loose = <<>>,
                                                   !.native = r.native])
    /\ UNCHANGED nonDevVars

\* impl Drop for CaptureSession: the caller drops a session it holds.
DevCloseSession(i) ==
    /\ dv.pc = "open"
    /\ i \in 1..Len(dv.sessions)
    /\ dv' = [dv EXCEPT !.sessions = SubSeq(@, 1, i - 1) \o SubSeq(@, i + 1, Len(@)),
                        !.native = Perform(dv.native, DropCaptureSession(dv.sessions[i]))]
    /\ UNCHANGED nonDevVars

\* impl Drop for CameraDevice: the caller drops the device.  A CaptureSession
\* borrows nothing from the device it was made from, so the device can be
\* dropped while sessions made from it are still held.
DevDropDevice ==
    /\ dv.pc = "open"
    /\ dv.device # <<>>
    /\ dv' = [dv EXCEPT !.device = <<>>,
                        !.native = Perform(dv.native, DropCameraDevice(dv.device[1]))]
    /\ UNCHANGED nonDevVars

\* ------------------------------------------ CameraManager::get_camera_id
\* The cameras of the host are a list of lens facings; the id of a camera is
\* its position in the list.
\*   cameras    : the facing of each camera, in the order of the id list
\*   out        : the id get_camera_id returned
\*   borrows    : the handles whose memory the returned string points into
\*   i          : the loop variable, from 1
\*   selected   : selected_camera_id, None or Some string
\*   camera_ids : the local holding the CameraIdList
\*   metadata   : the local of the loop body holding the CameraMetadata
\*   native     : the number of release calls made on each handle
\*   failed     : the call that panicked, or "none"

Facings == {"FRONT", "BACK", "EXTERNAL"}

RECURSIVE SeqsUpTo(_, _)
SeqsUpTo(S, n) ==
    IF n = 0 THEN {<<>>}
    ELSE SeqsUpTo(S, n - 1)
         \cup {Append(q, x) : q \in {r \in SeqsUpTo(S, n - 1) : Len(r) = n - 1}, x \in S}

\* No function is being called.
NoCall == [f |-> "none", pc |-> "idle", arg |-> <<>>, out |-> <<>>]

\* code_handler has not been started: no call made to the store, no code
\* shown.
\*   pc            : "new", then "top" and "await" in turn (the loop), at last
\*                   "closed" or "panicked"
\*   totps         : the Vec<TOTP> of code_handler
\*   codes         : state.codes, the list the UI shows
\*   disk          : the calls that message made to the store of the host
\*   unique_idx    : the counter of code_handler
\*   last_add_time : the local of that name
\*   now           : the time, in ms since code_handler started
\*   handled       : the number of messages received
\*   msg, res      : the message received last and what became of it
\*   dialog        : the error dialog that message opened, None or Some
\*   added_at      : the time the TOTP list grew last
NoHandler == [pc |-> "new", totps |-> <<>>, codes |-> <<>>, disk |-> <<>>,
              unique_idx |-> 0, last_add_time |-> 0, now |-> 0, handled |-> 0,
              msg |-> <<>>, res |-> "none", dialog |-> <<>>, added_at |-> 0]

\* No selection is running.
NoSelection == [pc |-> "idle", cameras |-> <<>>, out |-> <<>>, borrows |-> <<>>,
                i |-> 0, selected |-> <<>>, camera_ids |-> <<>>, metadata |-> <<>>,
                native |-> <<>>, failed |-> "none"]

InitSelect ==
    /\ InitQr
    /\ ~permission
    /\ InitCamera
    /\ dv = NoDevice
    /\ pure = NoCall
    /\ ch = NoHandler
    /\ \E cameras \in SeqsUpTo(Facings, MaxCameraIds) :
         sel = [NoSelection EXCEPT !.cameras = cameras]

\* get_camera_id, line 614-627: the loop over the id list, from camera i on.
\* Every back-facing camera met replaces the selection; the loop has no break.
RECURSIVE ScanCameras(_, _, _)
ScanCameras(cameras, i, selected_camera_id) ==
    IF i > Len(cameras) THEN selected_camera_id
    ELSE ScanCameras(cameras, i + 1,
                     IF cameras[i] = "BACK" THEN <<i>> ELSE selected_camera_id)

\* CameraManager::get_camera_id: the selection after the loop, None or Some.
GetCameraId(cameras) == ScanCameras(cameras, 1, <<>>)

\* CStr::from_ptr(*list.cameraIds.offset(i)): a string that lives in the
\* memory of the id list.
CStrFromPtr(list, i) == [id |-> i, borrows |-> <<list.h>>]

\* camera_id.into(), &CStr to CString: an owned copy of the bytes.
IntoCString(s) == [id |-> s.id, borrows |-> <<>>]

\* A panic inside get_camera_id: the locals alive are dropped while the
\* stack unwinds, the metadata of the loop body before the id list.
SelectPanic(call) ==
    LET drops == (IF sel.metadata = <<>> THEN <<>>
                  ELSE DropCameraMetadata(sel.metadata[1]))
                 \o (IF sel.camera_ids = <<>> THEN <<>>
                     ELSE DropCameraIdList(sel.camera_ids[1]))
    IN sel' = [sel EXCEPT !.pc = "panicked", !.failed = call,
                          !.metadata = <<>>, !.camera_ids = <<>>, !.selected = <<>>,
                          !.native = Perform(sel.native, drops)]

\* get_camera_id, line 607: self.camera_id_list().
SelectIdList ==
    /\ sel.pc = "idle"
    /\ \E ok \in BOOLEAN :
         IF ok
           THEN sel' = [sel EXCEPT !.pc = "loop", !.i = 1,
                                   !.camera_ids = <<[h |-> <<"idlist", 1>>]>>,
                                   !.native = WithNew(sel.native, "idlist", 0)]
           ELSE SelectPanic("ACameraManager_getCameraIdList")
    /\ UNCHANGED nonSelVars

\* get_camera_id, line 617: self.get_metadata(camera_id) in the loop body.
SelectMetadata ==
    /\ sel.pc = "loop"
    /\ sel.i <= Len(sel.cameras)
    /\ \E ok \in BOOLEAN :
         IF ok
           THEN sel' = [sel EXCEPT !.pc = "entry",
                                   !.metadata = <<[h |-> <<"meta", sel.i>>]>>,
                                   !.native = WithNew(sel.native, "meta", 0)]
           ELSE SelectPanic("ACameraManager_getCameraCharacteristics")
    /\ UNCHANGED nonSelVars

\* A mutation of SelectFacing: the metadata of a camera that is not selected
\* is forgotten, not dropped.
SelectFacingLeak ==
    /\ sel.pc = "entry"
    /\ \E ok \in BOOLEAN :
         IF ok
           THEN LET camera_id == CStrFromPtr(sel.camera_ids[1], sel.i)
                    back == sel.cameras[sel.i] = "BACK"
                IN sel' = [sel EXCEPT
                     !.pc = "loop", !.i = sel.i + 1,
                     !.selected = IF back THEN <<IntoCString(camera_id)>> ELSE @,
                     !.metadata = <<>>,
                     !.native = IF back
                                  THEN Perform(@, DropCameraMetadata(sel.metadata[1]))
                                  ELSE @]
           ELSE SelectPanic("ACameraMetadata_getConstEntry")
    /\ UNCHANGED nonSelVars

\* get_camera_id, line 618-626: the rest of the loop body.  The facing is
\* read, a back-facing camera replaces the selection, and the metadata is
\* dropped at the end of the iteration.
SelectFacing ==
    /\ sel.pc = "entry"
    /\ \E ok \in BOOLEAN :
         IF ok
           THEN LET camera_id == CStrFromPtr(sel.camera_ids[1], sel.i)
                IN sel' = [sel EXCEPT
                     !.pc = "loop", !.i = sel.i + 1,
                     !.selected = IF sel.cameras[sel.i] = "BACK"
                                    THEN <<IntoCString(camera_id)>> ELSE @,
                     !.metadata = <<>>,
                     !.native = Perform(@, DropCameraMetadata(sel.metadata[1]))]
           ELSE SelectPanic("ACameraMetadata_getConstEntry")
    /\ UNCHANGED nonSelVars

\* get_camera_id, line 629: the loop is over, the selection is unwrapped
\* (None panics) and the id list is dropped.
SelectReturn ==
    /\ sel.pc = "loop"
    /\ sel.i > Len(sel.cameras)
    /\ IF sel.selected = <<>>
         THEN SelectPanic("unwrap")
         ELSE sel' = [sel EXCEPT
                !.pc = "done",
                !.out = <<sel.selected[1].id>>,
                !.borrows = sel.selected[1].borrows,
                !.selected = <<>>,
                !.camera_ids = <<>>,
                !.native = Perform(@, DropCameraIdList(sel.camera_ids[1]))]
    /\ UNCHANGED nonSelVars

Init ==
    /\ InitQr
    /\ InitCamera
    /\ dv = NoDevice
    /\ sel = NoSelection
    /\ pure = NoCall
    /\ ch = NoHandler

Next ==
    \/ GrantPermission
    \/ \E c \in Callers : StartCheck(c)
    \/ \E c \in Callers : StartPerm(c)
    \/ \E c \in Callers : StartCreate(c)
    \/ \E c \in Callers : StartInstall(c)
    \/ \E c \in Callers : StopRead(c)
    \/ \E c \in Callers : StopCall(c)
    \/ \E c \in Callers : StopFree(c)
    \/ \E c \in Callers : StopWrite(c)
    \/ \E h \in 1..Len(helpers) : DispatchFrame(h)
    \/ \E k \in 1..Len(frames) : HandleImageConvert(k)
    \/ \E k \in 1..Len(frames) : HandleImageEnqueue(k)

Spec == Init /\ [][Next]_vars

\* The calls of the UI thread: a call begins only when no other call runs.
NoCallRuns == \A c \in Callers : pc[c] = "idle"

NextSerial ==
    \/ GrantPermission
    \/ \E c \in Callers : NoCallRuns /\ StartCheck(c)
    \/ \E c \in Callers : StartPerm(c)
    \/ \E c \in Callers : StartCreate(c)
    \/ \E c \in Callers : StartInstall(c)
    \/ \E c \in Callers : NoCallRuns /\ StopRead(c)
    \/ \E c \in Callers : StopCall(c)
    \/ \E c \in Callers : StopFree(c)
    \/ \E c \in Callers : StopWrite(c)
    \/ \E h \in 1..Len(helpers) : DispatchFrame(h)
    \/ \E k \in 1..Len(frames) : HandleImageConvert(k)
    \/ \E k \in 1..Len(frames) : HandleImageEnqueue(k)

SpecSerial == Init /\ [][NextSerial]_vars

\* The scanner on a device that is turned while a helper runs.
NextTurned ==
    \/ GrantPermission
    \/ \E c \in Callers : StartCheck(c)
    \/ \E c \in Callers : StartPerm(c)
    \/ \E c \in Callers : StartCreate(c)
    \/ \E c \in Callers : StartInstall(c)
    \/ \E c \in Callers : StopRead(c)
    \/ \E c \in Callers : StopCall(c)
    \/ \E c \in Callers : StopFree(c)
    \/ \E c \in Callers : StopWrite(c)
    \/ \E h \in 1..Len(helpers) : DispatchTurned(h)
    \/ \E k \in 1..Len(frames) : HandleImageConvert(k)
    \/ \E k \in 1..Len(frames) : HandleImageEnqueue(k)

SpecTurned == Init /\ [][NextTurned]_vars

\* The calls of the JavaHelpers API on the helper load_helper_objects
\* constructed, and the frames that helper delivers.
NextJava ==
    \/ \E c \in Callers, h \in 1..Len(LoadHelperObjects) : StartCamera(c, h)
    \/ \E c \in Callers, h \in 1..Len(LoadHelperObjects) : StopCamera(c, h)
    \/ \E c \in Callers, h \in 1..Len(LoadHelperObjects) : IsCameraRunning(c, h)
    \/ \E h \in 1..Len(helpers) : DispatchFrame(h)
    \/ \E k \in 1..Len(frames) : HandleImageConvert(k)
    \/ \E k \in 1..Len(frames) : HandleImageEnqueue(k)

SpecJava == Init /\ [][NextJava]_vars

\* The steps of the call caller c has begun.  The thread of the call is
\* scheduled and every host call it makes returns, so a step that stays
\* possible is taken.
CallStep(c) ==
    \/ StartPerm(c)
    \/ StartCreate(c)
    \/ StartInstall(c)
    \/ StopCall(c)
    \/ StopFree(c)
    \/ StopWrite(c)

\* The calls of start and stop, overlapping, on their own: the frame
\* callbacks take no lock of the slot.
NextCalls ==
    \/ GrantPermission
    \/ \E c \in Callers : StartCheck(c)
    \/ \E c \in Callers : StartPerm(c)
    \/ \E c \in Callers : StartCreate(c)
    \/ \E c \in Callers : StartInstall(c)
    \/ \E c \in Callers : StopRead(c)
    \/ \E c \in Callers : StopCall(c)
    \/ \E c \in Callers : StopFree(c)
    \/ \E c \in Callers : StopWrite(c)

SpecFair == Init /\ [][NextCalls]_vars /\ \A c \in Callers : WF_vars(CallStep(c))

NextCamera ==
    \/ BuildManager
    \/ BuildCameraId
    \/ BuildStreamCfg
    \/ BuildOpen
    \/ BuildReader
    \/ BuildWindow
    \/ BuildTarget
    \/ BuildContainer
    \/ BuildOutput
    \/ BuildAddOutput
    \/ BuildSession
    \/ BuildRequest
    \/ BuildAddTarget
    \/ BuildListener
    \/ BuildStart
    \/ Install
    \/ StopCapture
    \/ DropStep
    \/ DropDone
    \/ CbDispatch
    \/ \E k \in 1..Len(cbs) : CbAcquire(k)
    \/ \E k \in 1..Len(cbs) : CbConvert(k)
    \/ \E k \in 1..Len(cbs) : CbRelease(k)
    \/ \E k \in 1..Len(cbs) : CbEnqueue(k)

\* The camera pipeline on its own: the scanner of qr.rs is not used.
InitNoScanner == Init /\ ~permission

SpecCamera == InitNoScanner /\ [][NextCamera]_vars

\* A pipeline that streams: the state after the Install of a first build in
\* which every call succeeded.
StreamingContext ==
    [session |-> [h |-> <<"session", 1>>,
                  request |-> <<[h |-> <<"request", 1>>,
                                 target |-> <<[h |-> <<"target", 1>>]>>]>>],
     device |-> [h |-> <<"device", 1>>,
                 container |-> <<[h |-> <<"container", 1>>,
                                  output |-> <<[h |-> <<"output", 1>>]>>]>>],
     manager |-> [h |-> <<"manager", 1>>],
     image_reader |-> [h |-> <<"reader", 1>>, listener |-> TRUE]]

StreamingNative ==
    LET made == WithMetas(WithMetas(WithIdList(<<>>), NumCameras), 2)
    IN made @@ [h \in {<<"session", 1>>, <<"request", 1>>, <<"target", 1>>,
                       <<"device", 1>>, <<"container", 1>>, <<"output", 1>>,
                       <<"manager", 1>>, <<"reader", 1>>} |-> 0]

InitListener ==
    /\ InitQr
    /\ ~permission
    /\ cam = "streaming"
    /\ bl = EmptyLocals
    /\ ctx = <<StreamingContext>>
    /\ pending = <<>>
    /\ log = <<>>
    /\ native = StreamingNative
    /\ cycles = 1
    /\ cbs = <<>>
    /\ uiQueue = <<>>
    /\ \E sc \in StreamConfigurations, rotation \in ImageRotations :
         handlers = <<NewImageHandler(sc, rotation)>>
    /\ dv = NoDevice
    /\ sel = NoSelection
    /\ pure = NoCall
    /\ ch = NoHandler

NextListener ==
    \/ ListenerDispatch
    \/ \E k \in 1..Len(cbs) : CbAcquire(k)
    \/ \E k \in 1..Len(cbs) : CbConvert(k)
    \/ \E k \in 1..Len(cbs) : CbRelease(k)
    \/ \E k \in 1..Len(cbs) : CbEnqueue(k)

SpecListener == InitListener /\ [][NextListener]_vars

NextSelect ==
    \/ SelectIdList
    \/ SelectMetadata
    \/ SelectFacing
    \/ SelectReturn

SpecSelect == InitSelect /\ [][NextSelect]_vars

NextDevice ==
    \/ DevOpen
    \/ DevContainer
    \/ DevCreateSession
    \/ \E i \in 1..MaxSessions : DevCloseSession(i)
    \/ DevDropDevice

SpecDevice == InitNoScanner /\ [][NextDevice]_vars

\* ------------------------------------------- functions of their arguments
\*   pure.f   : the function called
\*   pure.pc  : "call" before the function has run, then "returned" or
\*              "panicked"
\*   pure.arg : its arguments
\*   pure.out : what it returned

\* The call of function f with the arguments arg.
CallOf(f, arg) == [f |-> f, pc |-> "call", arg |-> arg, out |-> <<>>]

Returned(value) == [pure EXCEPT !.pc = "returned", !.out = value]
Panicked == [pure EXCEPT !.pc = "panicked"]

\* ---- CameraManager::get_stream_configuration
\* The entries a camera may report under
\* ACAMERA_SCALER_AVAILABLE_STREAM_CONFIGURATIONS: format, width, height and
\* direction (0 output, 1 input).
ConfigurationEntries ==
    {<<"JPEG", 1920, 1080, 0>>, <<"JPEG", 640, 480, 0>>, <<"JPEG", 640, 360, 0>>,
     <<"JPEG", 320, 240, 1>>, <<"RAW", 4000, 3000, 0>>, <<"RAW", 320, 240, 0>>}

\* entry.data.i32_: the entries one after the other, four values each.
RECURSIVE EntryData(_)
EntryData(entries) ==
    IF entries = <<>> THEN <<>> ELSE Head(entries) \o EntryData(Tail(entries))

\* get_stream_configuration, line 707-722: the loop over the values of the
\* entry, in steps of four from offset idx.  A JPEG entry replaces the
\* configuration when none is held or when it is narrower than the one held.
RECURSIVE ScanConfigurations(_, _, _)
ScanConfigurations(data, idx, stream_config) ==
    IF idx >= Len(data) THEN stream_config
    ELSE LET format == data[idx + 1]
             width == data[idx + 2]
             height == data[idx + 3]
             found == <<[format |-> format, width |-> width, height |-> height]>>
         IN ScanConfigurations(data, idx + 4,
              IF format = "JPEG"
                THEN IF stream_config # <<>> /\ width < stream_config[1].width THEN found
                     ELSE IF stream_config = <<>> THEN found
                     ELSE stream_config
                ELSE stream_config)

\* CameraManager::get_stream_configuration: the configuration after the
\* loop, None or Some.
GetStreamConfiguration(data) == ScanConfigurations(data, 0, <<>>)

\* get_stream_configuration is called on a camera that lists the entries of
\* pure.arg.  get_metadata panics when ACameraManager_getCameraCharacteristics
\* fails or hands out null (line 746, 749), get_metadata_entry when
\* ACameraMetadata_getConstEntry fails (line 767); after the loop the
\* configuration is unwrapped (line 724), None panics.
ApplyGetStreamConfiguration ==
    /\ pure.f = "get_stream_configuration"
    /\ pure.pc = "call"
    /\ \E host \in {"ok", "get_metadata_fails", "get_metadata_entry_fails"} :
         LET stream_config == GetStreamConfiguration(pure.arg)
         IN pure' = IF host # "ok" \/ stream_config = <<>> THEN Panicked
                    ELSE Returned(stream_config)
    /\ UNCHANGED nonPureVars

\* ---- ImageRotation::from_deg
\* The rotations the functions are applied to: the degrees around a full
\* turn in both directions and the ends of the i32 range.
Rotations == (-MaxDeg..MaxDeg) \cup {-2147483647 - 1, 2147483647}

\* A mutation of FromDeg: the rotation is brought into 0..359 first.
FromDegNormalised(rotation) ==
    LET r == rotation % 360
    IN IF r >= 45 /\ r < 135 THEN "Deg90"
       ELSE IF r >= 135 /\ r < 225 THEN "Deg180"
       ELSE IF r >= 225 /\ r < 315 THEN "Deg270"
       ELSE "Deg0"

\* ImageRotation::from_deg: a match on half-open ranges, with a catch-all.
FromDeg(rotation) ==
    IF rotation >= 45 /\ rotation < 135 THEN "Deg90"
    ELSE IF rotation >= 135 /\ rotation < 225 THEN "Deg180"
    ELSE IF rotation >= 225 /\ rotation < 315 THEN "Deg270"
    ELSE "Deg0"

ApplyFromDeg ==
    /\ pure.f = "from_deg"
    /\ pure.pc = "call"
    /\ pure' = Returned(<<FromDeg(pure.arg[1])>>)
    /\ UNCHANGED nonPureVars

\* ---- CameraManager::camera_rotation
\* The orientations a sensor and a display report.
Orientations == {0, 90, 180, 270}

\* CameraManager::camera_rotation, line 728-732: the first value of the
\* ACAMERA_SENSOR_ORIENTATION entry of the camera.  The rotation of the
\* device is no argument of it and is read nowhere in camera.rs.
CameraRotation(sensor_orientation) == sensor_orientation

\* camera_rotation is called on a camera whose sensor is at pure.arg[1],
\* while the device is turned by pure.arg[2], which is no argument of the
\* function; it returns degrees, an i32.  get_metadata and
\* get_metadata_entry panic when their native call fails (line 746, 749,
\* 767).
ApplyCameraRotation ==
    /\ pure.f = "camera_rotation"
    /\ pure.pc = "call"
    /\ \E host \in {"ok", "get_metadata_fails", "get_metadata_entry_fails"} :
         pure' = IF host = "ok" THEN Returned(<<CameraRotation(pure.arg[1])>>)
                 ELSE Panicked
    /\ UNCHANGED nonPureVars

\* ---- qr::rotation_mode, applied to its arguments
ApplyRotationMode ==
    /\ pure.f = "rotation_mode"
    /\ pure.pc = "call"
    /\ pure' = Returned(<<RotationMode(pure.arg[1], pure.arg[2], pure.arg[3])>>)
    /\ UNCHANGED nonPureVars

\* ---- ImageHandler::create_slint_image
AllImageRotations == {"Deg0", "Deg90", "Deg180", "Deg270"}

\* create_slint_image is called on a frame: AImage_getPlaneData or the
\* decoding fails and the function panics, or the buffer is made.
ApplyCreateSlintImage ==
    /\ pure.f = "create_slint_image"
    /\ pure.pc = "call"
    /\ \E ok \in BOOLEAN :
         pure' = IF ok THEN Returned(<<CreateSlintImage(pure.arg[1])>>) ELSE Panicked
    /\ UNCHANGED nonPureVars

InitPure ==
    /\ InitQr
    /\ ~permission
    /\ InitCamera
    /\ dv = NoDevice
    /\ sel = NoSelection
    /\ ch = NoHandler
    /\ \/ \E entries \in SeqsUpTo(ConfigurationEntries, MaxEntries) :
            pure = CallOf("get_stream_configuration", EntryData(entries))
       \/ \E rotation \in Rotations : pure = CallOf("from_deg", <<rotation>>)
       \/ \E sensor_orientation \in Orientations, device_rotation \in Orientations :
            pure = CallOf("camera_rotation", <<sensor_orientation, device_rotation>>)
       \/ \E rotation \in Rotations, size \in FrameSizes :
            pure = CallOf("rotation_mode", <<rotation, size[1], size[2]>>)
       \/ \E rotation \in AllImageRotations, size \in FrameSizes :
            pure = CallOf("create_slint_image",
                          <<NewImageHandler([format |-> "JPEG", width |-> size[1],
                                             height |-> size[2]], rotation)>>)

NextPure ==
    \/ ApplyGetStreamConfiguration
    \/ ApplyFromDeg
    \/ ApplyCameraRotation
    \/ ApplyRotationMode
    \/ ApplyCreateSlintImage

SpecPure == InitPure /\ [][NextPure]_vars

\* =========================================================================
\*                              src/src/codes.rs
\* =========================================================================

DebounceTime == 1000
TimeoutMs == 500

\* ---- URLs and TOTPs
\* A URL is a text: two URLs that differ only in their form (the order of
\* the parameters, the escaping) are different texts of the same TOTP.
\* Form 0 is the text TOTP::get_url writes.
Url(form, secret, account_name, issuer) ==
    [kind |-> "otpauth", form |-> form, secret |-> secret, digits |-> 6,
     account_name |-> account_name, issuer |-> issuer, period |-> 1]

Secret == [key |-> "k1", len |-> 16]
ShortSecret == [key |-> "k0", len |-> 5]

\* A text that is no otpauth URL.
Garbage == [Url(1, ShortSecret, "", <<>>) EXCEPT !.kind = "garbage"]

\* The URLs an Add message carries.
AddUrls == {Url(1, Secret, "a", <<>>), Url(2, Secret, "a", <<>>),
            Url(1, Secret, "b", <<>>), Url(1, ShortSecret, "a", <<>>), Garbage}

\* The names and issuers an Edit message carries.
EditNames == {"a", "b"}
EditIssuers == {"", "x"}

\* TOTP::from_url_unchecked: the TOTP a URL describes, Err for another text.
FromUrlUnchecked(url) ==
    IF url.kind = "otpauth"
      THEN <<[secret |-> url.secret, digits |-> url.digits, step |-> url.period,
              account_name |-> url.account_name, issuer |-> url.issuer]>>
      ELSE <<>>

\* assert_digits
AssertDigits(digits) == digits >= 6 /\ digits <= 8

\* assert_secret_length
AssertSecretLength(secret) == secret.len >= 10

\* str::contains(':')
ContainsColon(str) == str \in {"a:b"}

\* url_to_totp, line 284-294, on the TOTP of a URL that could be read.
UrlToTotp(url) ==
    LET totp == FromUrlUnchecked(url)[1]
    IN IF ~AssertDigits(totp.digits) THEN [ok |-> FALSE, err |-> "InvalidDigits"]
       ELSE IF ~AssertSecretLength(totp.secret) THEN [ok |-> FALSE, err |-> "SecretTooSmall"]
       ELSE IF totp.issuer # <<>> /\ ContainsColon(totp.issuer[1])
         THEN [ok |-> FALSE, err |-> "Issuer"]
       ELSE IF ContainsColon(totp.account_name) THEN [ok |-> FALSE, err |-> "AccountName"]
       ELSE [ok |-> TRUE, totp |-> totp]

\* TOTP::get_url: the normalized URL of a TOTP.
GetUrl(totp) ==
    [kind |-> "otpauth", form |-> 0, secret |-> totp.secret, digits |-> totp.digits,
     account_name |-> totp.account_name, issuer |-> totp.issuer, period |-> totp.step]

\* totp_to_code at unix time t (ms).
TotpToCode(unique_idx, totp, t) ==
    LET secs == t \div 1000
        valid_duration_secs == totp.step - (secs % totp.step)
    IN [unique_idx |-> unique_idx,
        name |-> totp.account_name,
        issuer |-> IF totp.issuer = <<>> THEN "" ELSE totp.issuer[1],
        code |-> <<totp.secret.key, secs \div totp.step>>,
        next_code |-> <<totp.secret.key, (secs \div totp.step) + 1>>,
        step |-> totp.step * 1000,
        start_unix_time |-> t,
        valid_until_unix_time |-> t + valid_duration_secs * 1000]

\* ---- sequences
\* Vec::remove, VecModel::remove (rows count from 1 here)
RemoveAt(q, row) == SubSeq(q, 1, row - 1) \o SubSeq(q, row + 1, Len(q))

\* Vec::swap, VecModel::swap
Swap(q, i, j) == [q EXCEPT ![i] = q[j], ![j] = q[i]]

\* state.codes.iter().enumerate().find(|(_, c)| c.unique_idx == unique_idx):
\* the first row with that unique_idx, 0 for None.
FindRow(codes, unique_idx) ==
    IF \E r \in 1..Len(codes) : codes[r].unique_idx = unique_idx
      THEN CHOOSE r \in 1..Len(codes) :
             /\ codes[r].unique_idx = unique_idx
             /\ \A j \in 1..(r - 1) : codes[j].unique_idx # unique_idx
      ELSE 0

\* ---- the store of the host
\* The store is kept by the Java side.  code_handler reads it once and then
\* tells it what was done: `disk` is the list of the calls the handling of a
\* message makes to the store, in order, each with the URLs handed over.

\* JavaHelpers::write_url_to_disk(url)
WriteUrlToDisk(disk, url) ==
    Append(disk, [op |-> "write_url_to_disk", urls |-> <<url>>])

\* JavaHelpers::remove_url_from_disk(url)
RemoveUrlFromDisk(disk, url) ==
    Append(disk, [op |-> "remove_url_from_disk", urls |-> <<url>>])

\* JavaHelpers::edit_url_on_disk(old_url, new_url)
EditUrlOnDisk(disk, old_url, new_url) ==
    Append(disk, [op |-> "edit_url_on_disk", urls |-> <<old_url, new_url>>])

\* The call swap_urls_on_disk(first_url, second_url) of handle_move (line
\* 232-234).  java.rs defines no such function: the call is recorded, what
\* it does is not part of the model.
SwapUrlsOnDisk(disk, first_url, second_url) ==
    Append(disk, [op |-> "swap_urls_on_disk", urls |-> <<first_url, second_url>>])

\* What JavaHelpers::get_urls_from_disk may return when code_handler starts:
\* the normalized URLs written by earlier runs.
UrlsOnDisk == {<<>>,
               <<GetUrl(FromUrlUnchecked(Url(1, Secret, "a", <<>>))[1])>>,
               <<GetUrl(FromUrlUnchecked(Url(1, Secret, "a", <<>>))[1]),
                 GetUrl(FromUrlUnchecked(Url(1, Secret, "b", <<>>))[1])>>}

\* ---- code_handler
\* A panic inside a handler ends code_handler: its locals are dropped, the
\* UI list stays as it is and no further call is made to the store.
HandlerPanic(h) == [h EXCEPT !.pc = "panicked", !.res = "panic", !.totps = <<>>]

\* What the host does with the calls of one handler: all of them return,
\* attach_current_thread fails (every handler unwraps it first), or the call
\* of the handler to the store fails (java.rs unwraps it).
HostOutcomes == {"ok", "attach_fails", "call_fails"}

\* load_totps: <<the TOTPs of the URLs>>, or <<>> when it panics: on a host
\* call that fails (line 241, java.rs:82-92) and on a URL that url_to_totp
\* cannot read or rejects (the unwrap of line 246).
LoadTotps(urls, host) ==
    IF host # "ok" THEN <<>>
    ELSE IF \E i \in 1..Len(urls) :
              FromUrlUnchecked(urls[i]) = <<>> \/ ~UrlToTotp(urls[i]).ok
      THEN <<>>
    ELSE <<[i \in 1..Len(urls) |-> UrlToTotp(urls[i]).totp]>>

\* code_handler line 40-43: one code per loaded TOTP.
RECURSIVE PushCodes(_, _)
PushCodes(h, totps) ==
    IF totps = <<>> THEN h
    ELSE PushCodes([h EXCEPT !.codes = Append(@, TotpToCode(h.unique_idx, Head(totps), h.now)),
                             !.unique_idx = @ + 1],
                   Tail(totps))

\* code_handler line 29-43: the locals are set up and the URLs on disk are
\* loaded.  A panic of load_totps ends code_handler before a code is shown.
Load ==
    /\ ch.pc = "new"
    /\ \E urls \in UrlsOnDisk, host \in HostOutcomes :
         LET loaded == LoadTotps(urls, host)
         IN ch' = IF loaded = <<>> THEN HandlerPanic(ch)
                  ELSE [PushCodes([ch EXCEPT !.totps = loaded[1]], loaded[1])
                          EXCEPT !.pc = "top", !.last_add_time = ch.now]
    /\ UNCHANGED nonCodeVars

\* code_handler line 46-57: the codes past their time are generated again,
\* for the rows both lists have.
RefreshCodes(h) ==
    [row \in 1..Len(h.codes) |->
        IF row <= Len(h.totps) /\ h.now > h.codes[row].valid_until_unix_time
          THEN TotpToCode(h.codes[row].unique_idx, h.totps[row], h.now)
          ELSE h.codes[row]]

Refresh ==
    /\ ch.pc = "top"
    /\ ch' = [ch EXCEPT !.pc = "await", !.codes = RefreshCodes(ch)]
    /\ UNCHANGED nonCodeVars

\* code_handler line 59, 79: no message within the timeout.
Timeout ==
    /\ ch.pc = "await"
    /\ ch.now + TimeoutMs <= MaxTime
    /\ ch' = [ch EXCEPT !.pc = "top", !.now = @ + TimeoutMs]
    /\ UNCHANGED nonCodeVars

\* code_handler line 81: the channel is closed.
Close ==
    /\ ch.pc = "await"
    /\ ch' = [ch EXCEPT !.pc = "closed"]
    /\ UNCHANGED nonCodeVars

\* The time a message waits to be received: none when it was queued before,
\* or some.
Delays == {0, 1}

\* code_handler line 59: message m is received after delay d.
Received(m, d) ==
    [ch EXCEPT !.now = @ + d, !.handled = @ + 1, !.msg = <<m>>, !.res = "none",
               !.dialog = <<>>, !.disk = <<>>]

MayReceive(d) ==
    /\ ch.pc = "await"
    /\ ch.handled < MaxMessages
    /\ ch.now + d <= MaxTime

\* handle_add.  attach_current_thread is unwrapped (line 88) before the URL
\* is looked at; write_url_to_disk is the call to the store.
HandleAdd(h, url, unique_idx, host) ==
    IF host = "attach_fails" THEN HandlerPanic(h)
    ELSE IF FromUrlUnchecked(url) = <<>> THEN HandlerPanic(h)
    ELSE LET parsed == UrlToTotp(url)
         IN IF parsed.ok
              THEN LET totp == parsed.totp
                       code == TotpToCode(unique_idx, totp, h.now)
                       normalized_url == GetUrl(totp)
                       already_exists ==
                           \E i \in 1..Len(h.totps) : GetUrl(h.totps[i]) = normalized_url
                   IN IF already_exists
                        THEN [h EXCEPT !.res = "duplicate",
                                       !.dialog = <<"This TOTP already exists in the application">>]
                      ELSE IF host = "call_fails" THEN HandlerPanic(h)
                      ELSE [h EXCEPT !.disk = WriteUrlToDisk(@, normalized_url),
                                     !.totps = Append(@, totp),
                                     !.codes = Append(@, code),
                                     !.res = "added"]
              ELSE [h EXCEPT !.res = "invalid", !.dialog = <<parsed.err>>]

\* A mutation of AfterAdd: the counter is not advanced.
AfterAddNoCount(h, was_added) ==
    IF was_added THEN [h EXCEPT !.last_add_time = h.now] ELSE h

\* A mutation of AfterAdd: every add that was acted on restarts the window.
AfterAddAlways(h, was_added) ==
    [h EXCEPT !.unique_idx = IF was_added THEN @ + 1 ELSE @,
              !.last_add_time = h.now]

\* code_handler line 63-66
AfterAdd(h, was_added) ==
    IF was_added
      THEN [h EXCEPT !.unique_idx = @ + 1, !.last_add_time = h.now]
      ELSE h

\* code_handler line 60-68: an Add message.
RecvAdd ==
    \E url \in AddUrls, d \in Delays, host \in HostOutcomes :
        /\ MayReceive(d)
        /\ LET h == Received([type |-> "Add", url |-> url], d)
           IN IF h.last_add_time + DebounceTime < h.now
                THEN LET done == HandleAdd(h, url, h.unique_idx, host)
                         next == AfterAdd(done, done.res = "added")
                     IN ch' = IF done.pc = "panicked" THEN done
                              ELSE [next EXCEPT
                                      !.pc = "top",
                                      !.added_at = IF Len(done.totps) > Len(h.totps)
                                                     THEN h.now ELSE @]
                ELSE /\ host = "ok"
                     /\ ch' = [h EXCEPT !.pc = "top", !.res = "dropped"]
        /\ UNCHANGED nonCodeVars

\* The unique_idx values a message of the UI may carry: those handed out.
SentIdx == 0..(ch.unique_idx - 1)

\* handle_remove.  attach_current_thread is unwrapped (line 127) before the
\* row is looked up; remove_url_from_disk, the call to the store, comes
\* after the row has been removed from both lists.
HandleRemove(h, unique_idx, host) ==
    LET row == FindRow(h.codes, unique_idx)
    IN IF host = "attach_fails" \/ row = 0 THEN HandlerPanic(h)
       ELSE LET totp == h.totps[row]
                normalized_url == GetUrl(totp)
                removed == [h EXCEPT !.totps = RemoveAt(@, row),
                                     !.codes = RemoveAt(@, row)]
            IN IF host = "call_fails" THEN HandlerPanic(removed)
               ELSE [removed EXCEPT !.disk = RemoveUrlFromDisk(@, normalized_url),
                                    !.res = "removed"]

\* code_handler line 69-71: a Remove message.
RecvRemove ==
    \E unique_idx \in SentIdx, d \in Delays, host \in HostOutcomes :
        /\ MayReceive(d)
        /\ LET h == Received([type |-> "Remove", unique_idx |-> unique_idx], d)
               done == HandleRemove(h, unique_idx, host)
           IN ch' = IF done.pc = "panicked" THEN done ELSE [done EXCEPT !.pc = "top"]
        /\ UNCHANGED nonCodeVars

\* A mutation of HandleEdit: the row of the UI list is not set again.
HandleEditNoSetRow(h, unique_idx, new_name, new_issuer, host) ==
    LET row == FindRow(h.codes, unique_idx)
    IN IF host = "attach_fails" \/ row = 0 THEN HandlerPanic(h)
       ELSE LET old_normalized_url == GetUrl(h.totps[row])
                totp == [h.totps[row] EXCEPT
                           !.account_name = new_name,
                           !.issuer = IF new_issuer = "" THEN <<>> ELSE <<new_issuer>>]
                new_normalized_url == GetUrl(totp)
            IN IF host = "call_fails" THEN HandlerPanic(h)
               ELSE [h EXCEPT
                       !.totps[row] = totp,
                       !.disk = EditUrlOnDisk(@, old_normalized_url, new_normalized_url),
                       !.res = "edited"]

\* handle_edit.  attach_current_thread is unwrapped (line 154) before the
\* row is looked up; edit_url_on_disk, the call to the store, comes before
\* the row of the UI list is set.
HandleEdit(h, unique_idx, new_name, new_issuer, host) ==
    LET row == FindRow(h.codes, unique_idx)
    IN IF host = "attach_fails" \/ row = 0 THEN HandlerPanic(h)
       ELSE LET old_normalized_url == GetUrl(h.totps[row])
                totp == [h.totps[row] EXCEPT
                           !.account_name = new_name,
                           !.issuer = IF new_issuer = "" THEN <<>> ELSE <<new_issuer>>]
                new_normalized_url == GetUrl(totp)
            IN IF host = "call_fails" THEN HandlerPanic(h)
               ELSE [h EXCEPT
                       !.totps[row] = totp,
                       !.disk = EditUrlOnDisk(@, old_normalized_url, new_normalized_url),
                       !.codes[row] = TotpToCode(unique_idx, totp, h.now),
                       !.res = "edited"]

\* code_handler line 72-74: an Edit message.
RecvEdit ==
    \E unique_idx \in SentIdx, new_name \in EditNames, new_issuer \in EditIssuers,
       d \in Delays, host \in HostOutcomes :
        /\ MayReceive(d)
        /\ LET h == Received([type |-> "Edit", unique_idx |-> unique_idx,
                              new_name |-> new_name, new_issuer |-> new_issuer], d)
               done == HandleEdit(h, unique_idx, new_name, new_issuer, host)
           IN ch' = IF done.pc = "panicked" THEN done ELSE [done EXCEPT !.pc = "top"]
        /\ UNCHANGED nonCodeVars

\* A mutation of HandleMove: the UI list is not swapped.
HandleMoveTotpsOnly(h, unique_idx, direction, host) ==
    LET row == FindRow(h.codes, unique_idx)
        row_count == Len(h.codes)
    IN IF host = "attach_fails" \/ row = 0 THEN HandlerPanic(h)
       ELSE IF direction = "Up" /\ row = 1
         THEN [h EXCEPT !.res = "false",
                        !.dialog = <<"Unable to move upwards since it is already at the top">>]
       ELSE IF direction = "Down" /\ row = row_count
         THEN [h EXCEPT !.res = "false",
                        !.dialog = <<"Unable to move downwards since it is already at the bottom">>]
       ELSE LET other_row == IF direction = "Up" THEN row - 1 ELSE row + 1
                first_url == GetUrl(h.totps[row])
                second_url == GetUrl(h.totps[other_row])
            IN [h EXCEPT !.totps = Swap(@, row, other_row),
                         !.disk = SwapUrlsOnDisk(@, first_url, second_url),
                         !.res = "true"]

\* handle_move.  attach_current_thread is unwrapped (line 191) before the
\* row is looked up; the URLs of the two rows are read (line 226-227), both
\* lists are swapped (line 229-230) and swap_urls_on_disk is called with the
\* two URLs (line 232-234).
HandleMove(h, unique_idx, direction, host) ==
    LET row == FindRow(h.codes, unique_idx)
        row_count == Len(h.codes)
    IN IF host = "attach_fails" \/ row = 0 THEN HandlerPanic(h)
       ELSE IF direction = "Up" /\ row = 1
         THEN [h EXCEPT !.res = "false",
                        !.dialog = <<"Unable to move upwards since it is already at the top">>]
       ELSE IF direction = "Down" /\ row = row_count
         THEN [h EXCEPT !.res = "false",
                        !.dialog = <<"Unable to move downwards since it is already at the bottom">>]
       ELSE LET other_row == IF direction = "Up" THEN row - 1 ELSE row + 1
                first_url == GetUrl(h.totps[row])
                second_url == GetUrl(h.totps[other_row])
            IN [h EXCEPT !.totps = Swap(@, row, other_row),
                         !.codes = Swap(@, row, other_row),
                         !.disk = SwapUrlsOnDisk(@, first_url, second_url),
                         !.res = "true"]

\* code_handler line 75-77: a Move message.  The host lets the handler
\* attach to the JVM or not.
RecvMove ==
    \E unique_idx \in SentIdx, direction \in {"Up", "Down"}, d \in Delays,
       host \in {"ok", "attach_fails"} :
        /\ MayReceive(d)
        /\ LET h == Received([type |-> "Move", unique_idx |-> unique_idx,
                              direction |-> direction], d)
               done == HandleMove(h, unique_idx, direction, host)
           IN ch' = IF done.pc = "panicked" THEN done ELSE [done EXCEPT !.pc = "top"]
        /\ UNCHANGED nonCodeVars

InitCodes ==
    /\ InitQr
    /\ ~permission
    /\ InitCamera
    /\ dv = NoDevice
    /\ sel = NoSelection
    /\ pure = NoCall
    /\ ch = NoHandler

NextCodes ==
    \/ Load
    \/ Refresh
    \/ Timeout
    \/ Close
    \/ RecvAdd
    \/ RecvRemove
    \/ RecvEdit
    \/ RecvMove

SpecCodes == InitCodes /\ [][NextCodes]_vars

\* =============================================================== claims

OpsOf(calls_) == [i \in 1..Len(calls_) |-> calls_[i].op]

ClaimedOrder == <<"ACaptureRequest_removeTarget", "ACameraCaptureSession_close",
                  "ACaptureSessionOutputContainer_remove", "ACameraDevice_close",
                  "AImageReader_delete", "ACameraManager_delete">>

InClaimedOrder(c) == \E i \in 1..Len(ClaimedOrder) : ClaimedOrder[i] = c.op

\* The teardown of an installed pipeline has run to its end.
TeardownDone == cam = "idle" /\ log # <<>>

\* C1: when an installed pipeline has been torn down, the named native calls
\* were made in the order request-to-target unlink, session close, container
\* output-remove, device close, image-reader delete, manager delete.
C1_TeardownOrder ==
    TeardownDone => OpsOf(SelectSeq(log, InClaimedOrder)) = ClaimedOrder

\* What the drop glue of CameraContext does with the six named calls.
DropGlueOrder == <<"ACameraCaptureSession_close", "ACaptureRequest_removeTarget",
                   "ACaptureSessionOutputContainer_remove", "ACameraDevice_close",
                   "ACameraManager_delete", "AImageReader_delete">>

\* When an installed pipeline has been torn down, the named native calls
\* were made in the order of the drop glue: the session is closed before the
\* request is unlinked, the manager is deleted before the image reader.
TeardownInDropGlueOrder ==
    TeardownDone => OpsOf(SelectSeq(log, InClaimedOrder)) = DropGlueOrder

\* C2: the image reader is never deleted while an Image acquired from it by
\* a frame callback is still unreleased.
C2_NoDeleteWhileImageOutstanding ==
    \A k \in 1..Len(cbs) :
        (cbs[k].image # <<>> /\ ~cbs[k].stale) => ~Released(cbs[k].reader)

\* C3: no frame callback reads the window box behind its context pointer
\* after a stop has freed it.
C3_NoReadOfFreedBox ==
    \A k \in 1..Len(frames) : frames[k].read # "freed"

\* C4: a start that finds the slot occupied returns true at once, without a
\* permission check or request, without a new box or helper and without
\* touching the slot; whenever a start returns true exactly one helper is
\* running, the one in the slot.
C4_IdempotentStart ==
    /\ [][\A c \in Callers :
            (slot # None /\ calls'[c] = calls[c] + 1 /\ op'[c] = "start")
              => (/\ ret'[c] = "true"
                  /\ pc'[c] = "idle"
                  /\ UNCHANGED <<slot, helpers, boxes, hostLog>>)]_vars
    /\ [][\A c \in Callers :
            (/\ op'[c] = "start" /\ pc'[c] = "idle" /\ ret'[c] = "true"
             /\ (calls'[c] # calls[c] \/ pc[c] = "start_install"))
              => (slot' # None /\ RunningHelpers' = {slot'})]_vars

\* C4 witness: a start has returned true on an occupied slot, after an
\* earlier start built the helper.
C4_Witness ==
    \E c \in Callers :
        /\ op[c] = "start" /\ pc[c] = "idle" /\ ret[c] = "true"
        /\ local[c].helper = None
        /\ slot # None
        /\ Len(helpers) = Len(LoadHelperObjects) + 1

\* C5: a stop that finds the slot empty calls no helper, frees no box, does
\* not fail and leaves the slot empty.
C5_StopIdleNoOp ==
    /\ [][\A c \in Callers :
            (slot = None /\ calls'[c] = calls[c] + 1 /\ op'[c] = "stop")
              => (pc'[c] = "stop_write" /\ UNCHANGED <<slot, helpers, boxes, readers>>)]_vars
    /\ [][\A c \in Callers :
            (pc[c] = "stop_write" /\ ~local[c].saw /\ pc'[c] # pc[c])
              => (/\ pc'[c] = "idle"
                  /\ ret'[c] = "unit"
                  /\ slot' = None
                  /\ UNCHANGED <<helpers, boxes>>)]_vars

\* C5 witness: a stop on an empty slot has returned.
C5_Witness ==
    \E c \in Callers :
        /\ op[c] = "stop" /\ pc[c] = "idle" /\ ret[c] = "unit"
        /\ ~local[c].saw
        /\ slot = None

\* C6: when a build has failed and the unwinding is over, every native
\* handle the build created has been released exactly once.
C6_BuildFailureReleasesAll ==
    cam = "panicked" =>
        \A h \in DOMAIN native : h[1] # "image" => native[h] = 1

\* C6 witness: create_session failed on a null session after the device had
\* taken the container, so that the unwinding dropped the container with the
\* device, after the image reader; the unwinding is over.
C6_Witness ==
    /\ cam = "panicked"
    /\ cycles = 1
    /\ {<<"container", 1>>, <<"output", 1>>, <<"target", 1>>} \subseteq DOMAIN native
    /\ <<"session", 1>> \notin DOMAIN native
    /\ \E i, j \in 1..Len(log) :
         /\ i < j
         /\ log[i].op = "AImageReader_delete"
         /\ log[j].op = "ACaptureSessionOutputContainer_free"

\* C7: a failed start attempt returns a typed error to its caller, and the
\* slot is empty or holds a fully built and started helper.
C7_FailedStartTypedError ==
    /\ \A c \in Callers : (op[c] = "start" /\ pc[c] = "panicked") => ret[c] = "error"
    /\ slot # None => slot \in 1..Len(helpers)

\* C8: at most one helper is created and running at a time, and each
\* helper's stop is invoked, and each window box freed, at most once.
C8_StartStopSerialized ==
    /\ Cardinality(RunningHelpers) <= 1
    /\ \A h \in 1..Len(helpers) : helpers[h].stops <= 1
    /\ \A b \in 1..Len(boxes) : boxes[b] <= 1

\* C9: no frame callback calls AImageReader_acquireLatestImage on a reader
\* that the teardown has already deleted.
C9_NoAcquireOnDeletedReader ==
    \A k \in 1..Len(cbs) : ~cbs[k].stale

\* The handles owned by live wrappers, by drop glue still running and by
\* frame callbacks.
OptH(o) == IF o = <<>> THEN <<>> ELSE <<o[1].h>>
ContainerH(o) == IF o = <<>> THEN <<>> ELSE <<o[1].h>> \o OptH(o[1].output)
RequestH(o) == IF o = <<>> THEN <<>> ELSE <<o[1].h>> \o OptH(o[1].target)
SessionH(o) == IF o = <<>> THEN <<>> ELSE <<o[1].h>> \o RequestH(o[1].request)
DeviceH(o) == IF o = <<>> THEN <<>> ELSE <<o[1].h>> \o ContainerH(o[1].container)
ContextH(o) ==
    IF o = <<>> THEN <<>>
    ELSE SessionH(<<o[1].session>>) \o DeviceH(<<o[1].device>>)
         \o <<o[1].manager.h, o[1].image_reader.h>>
PendingH == [i \in 1..Len(SelectSeq(pending, LAMBDA c : c.op \in ReleaseOps))
               |-> SelectSeq(pending, LAMBDA c : c.op \in ReleaseOps)[i].h]
RECURSIVE ImagesH(_)
ImagesH(k) == IF k = 0 THEN <<>> ELSE ImagesH(k - 1) \o OptH(cbs[k].image)
OwnedH ==
    OptH(bl.manager) \o DeviceH(bl.device) \o OptH(bl.reader) \o OptH(bl.target)
    \o ContainerH(bl.container) \o OptH(bl.output) \o SessionH(bl.session)
    \o RequestH(bl.request) \o ContextH(ctx) \o PendingH \o ImagesH(Len(cbs))
Owners(h) == Cardinality({i \in 1..Len(OwnedH) : OwnedH[i] = h})

\* C10: every native handle has exactly one owner until its release function
\* has run, and the release function runs exactly once: for each handle, the
\* releases made plus the owners left is one.
C10_ReleasedExactlyOnce ==
    \A h \in DOMAIN native : native[h] + Owners(h) = 1

\* C10 witness: a pipeline that delivered a frame has been torn down, every
\* handle of it released.
C10_Witness ==
    /\ TeardownDone
    /\ \E k \in 1..Len(cbs) : cbs[k].pc = "done"
    /\ \A h \in DOMAIN native : native[h] = 1

\* Positions of the log where the call `o` was made.
At(o) == {i \in 1..Len(log) : log[i].op = o}

\* The request freed at position i had a target attached: its drop unlinked
\* the target first.
UnlinkedBefore(i) ==
    \E u \in At("ACaptureRequest_removeTarget") : u < i /\ log[u].h = log[i].h

\* The SessionOutput of a container is freed before the container, and the
\* OutputContainer of a device before the device is closed.
ContainerChildrenFirst ==
    /\ \A i \in At("ACaptureSessionOutputContainer_free") :
         (\E u \in At("ACaptureSessionOutputContainer_remove") :
              u < i /\ log[u].h = log[i].h)
           => \E j \in At("ACaptureSessionOutput_free") : j < i
    /\ \A i \in At("ACameraDevice_close") :
         \A j \in At("ACaptureSessionOutputContainer_free") : j < i

\* C11: a wrapper's child is released before the wrapper's own handle: the
\* OutputTarget before ACaptureRequest_free, the SessionOutput before
\* ACaptureSessionOutputContainer_free, the OutputContainer before
\* ACameraDevice_close.
C11_ChildBeforeHandle ==
    /\ \A i \in At("ACaptureRequest_free") :
         UnlinkedBefore(i) => \E j \in At("ACameraOutputTarget_free") : j < i
    /\ ContainerChildrenFirst

\* C11 (amended): the SessionOutput is freed before
\* ACaptureSessionOutputContainer_free and the OutputContainer before
\* ACameraDevice_close; the OutputTarget of a request is unlinked before
\* ACaptureRequest_free and freed by the very next call after it.
C11_ChildBeforeHandleAmended ==
    /\ \A i \in At("ACaptureRequest_free") :
         UnlinkedBefore(i) =>
            /\ \A j \in At("ACameraOutputTarget_free") : j > i
            /\ (i < Len(log) => log[i + 1].op = "ACameraOutputTarget_free")
            /\ (i = Len(log) => /\ pending # <<>>
                                /\ Head(pending).op = "ACameraOutputTarget_free")
    /\ ContainerChildrenFirst

\* C11 witness: a teardown has freed a request with its target, a container
\* with its output, and closed the device.
C11_Witness ==
    /\ TeardownDone
    /\ \E i \in At("ACaptureRequest_free") :
         UnlinkedBefore(i) /\ \E j \in At("ACameraOutputTarget_free") : j > i
    /\ \E i \in At("ACaptureSessionOutputContainer_free") :
         \E j \in At("ACaptureSessionOutput_free") : j < i
    /\ At("ACameraDevice_close") # {}

\* The number of calls of `o` among the calls of `s`.
CountOp(s, o) == Cardinality({i \in 1..Len(s) : s[i].op = o})

\* The calls of `o` made after position u of the log or still to be made by
\* the drop glue now running.
AfterOrPending(u, o) == CountOp(SubSeq(log, u + 1, Len(log)), o) + CountOp(pending, o)

FailedUnlinks == {u \in 1..Len(log) : log[u].op \in UnlinkOps /\ ~log[u].ok}

\* C12: when an unlink call of a destruction (ACaptureRequest_removeTarget,
\* ACaptureSessionOutputContainer_remove) returns a failure, the destruction
\* goes on: it releases the child and the wrapper's own handle exactly once,
\* and when it is over every handle of the pipeline is released exactly once.
C12_UnlinkFailureTolerated ==
    /\ \A u \in FailedUnlinks :
         IF log[u].op = "ACaptureRequest_removeTarget"
           THEN /\ AfterOrPending(u, "ACaptureRequest_free") = 1
                /\ AfterOrPending(u, "ACameraOutputTarget_free") = 1
           ELSE /\ AfterOrPending(u, "ACaptureSessionOutputContainer_free") = 1
                /\ AfterOrPending(u, "ACaptureSessionOutput_free") = 1
    /\ (FailedUnlinks # {} /\ pending = <<>> /\ cam \in {"idle", "panicked"})
         => \A h \in DOMAIN native : h[1] # "image" => native[h] = 1

\* C12 witness: a teardown in which both unlink calls failed has run to its
\* end.
C12_Witness ==
    /\ TeardownDone
    /\ pending = <<>>
    /\ \E u \in FailedUnlinks : log[u].op = "ACaptureRequest_removeTarget"
    /\ \E u \in FailedUnlinks : log[u].op = "ACaptureSessionOutputContainer_remove"

\* The sessions made from the device and not yet closed.
OpenSessions == {h \in DOMAIN dv.backing : dv.native[h] = 0}

\* C13: whatever the sequence of create_session calls on a CameraDevice, at
\* most one CaptureSession made from it is open at a time, and the
\* OutputContainer an open session was made from is not freed.
C13_OneSessionPerDevice ==
    /\ Cardinality(OpenSessions) <= 1
    /\ \A h \in OpenSessions : dv.native[dv.backing[h]] = 0

\* C14: a stop always succeeds for its caller, also when the helper's stop
\* call fails: no stop ends in a failure, and a stop that has ended leaves
\* the slot empty.
C14_StopAlwaysSucceeds ==
    \A c \in Callers :
        op[c] = "stop" =>
            /\ pc[c] # "panicked"
            /\ ret[c] # "panic"
            /\ (pc[c] = "idle" => slot = None)

\* A start that finds no pipeline installed and the permission not held
\* creates no helper, leaks no window box and leaves the slot empty, whether
\* it returns or panics; a box or a helper is only ever created by a start
\* whose permission check has passed.
StartWithoutPermissionBuildsNothing ==
    /\ [][\A c \in Callers :
            (pc[c] = "start_perm" /\ ~permission /\ pc'[c] # pc[c])
              => (slot' = None /\ UNCHANGED <<slot, helpers, boxes>>)]_vars
    /\ [][(Len(boxes') # Len(boxes) \/ Len(helpers') # Len(helpers))
              => (/\ permission
                  /\ hostLog.checks > 0
                  /\ \E c \in Callers : pc[c] = "start_create" /\ pc'[c] # pc[c])]_vars

\* C15: a start that finds no pipeline installed and the permission not held
\* requests the permission and returns false, creates no helper, leaks no
\* window box and leaves the slot empty; the permission check comes before
\* anything is built.
C15_NoPermissionNoBuild ==
    /\ [][\A c \in Callers :
            (pc[c] = "start_perm" /\ ~permission /\ pc'[c] # pc[c])
              => (/\ hostLog'.requests = hostLog.requests + 1
                  /\ pc'[c] = "idle"
                  /\ ret'[c] = "false")]_vars
    /\ StartWithoutPermissionBuildsNothing

\* C16: a frame callback in which acquiring the image, reading its plane or
\* decoding it fails returns as a skipped frame: it never aborts the session
\* or the process.
C16_FrameFailureSkipsFrame ==
    \A k \in 1..Len(cbs) : cbs[k].pc # "aborted"

\* The Image an invocation acquired.
ImageOf(k) == <<"image", cbs[k].acq[1]>>

\* C17: in every on_image_available invocation the Image acquired at entry
\* is released exactly once, after the conversion and before the pixel
\* buffer is handed to the UI; no Image is outstanding when the invocation
\* has returned.
C17_ImageReleasedOnce ==
    /\ \A k \in 1..Len(cbs) :
         /\ cbs[k].pc = "entry" => (cbs[k].acq = <<>> /\ cbs[k].image = <<>>)
         /\ cbs[k].pc \in {"acquired", "converted"}
              => (cbs[k].image = <<[h |-> ImageOf(k)]>> /\ native[ImageOf(k)] = 0)
         /\ cbs[k].pc = "converted" => cbs[k].used # <<>>
         /\ cbs[k].pc \in {"released", "done"}
              => (/\ cbs[k].image = <<>>
                  /\ cbs[k].used # <<>>
                  /\ native[ImageOf(k)] = 1)
         /\ cbs[k].pc = "released" => \A q \in 1..Len(uiQueue) : uiQueue[q].frame # cbs[k].acq[1]
         /\ cbs[k].pc = "aborted"
              => (cbs[k].image = <<>> /\ (cbs[k].acq # <<>> => native[ImageOf(k)] = 1))
    /\ \A q \in 1..Len(uiQueue) : native[<<"image", uiQueue[q].frame>>] = 1

\* C17 witness: an invocation has acquired an Image, converted it, released
\* it and handed the pixel buffer to the UI.
C17_Witness ==
    \E k \in 1..Len(cbs) :
        /\ cbs[k].pc = "done"
        /\ native[ImageOf(k)] = 1
        /\ \E q \in 1..Len(uiQueue) : uiQueue[q].frame = cbs[k].acq[1]

\* C18: with frame callbacks running at once on several service threads,
\* each invocation acquires at most one frame, and the pixel buffers reach
\* the UI in the order in which their frames were acquired.
C18_FramesInOrder ==
    /\ \A k \in 1..Len(cbs) : Len(cbs[k].acq) <= 1
    /\ \A p, q \in 1..Len(uiQueue) : p < q => uiQueue[p].frame < uiQueue[q].frame

\* The stream configuration and the rotation of an ImageHandler stay as they
\* were made: no step of a callback, of the build or of the teardown changes
\* a handler, and every frame is converted with the values of the handler of
\* its pipeline.
ImageHandlerFixed ==
    /\ [](\A k \in 1..Len(cbs) :
            cbs[k].used # <<>>
              => cbs[k].used[1] = CreateSlintImage(handlers[cbs[k].handler]))
    /\ [][\A i \in 1..Len(handlers) :
            /\ i <= Len(handlers')
            /\ handlers'[i] = handlers[i]]_vars

\* The frames a helper delivered were converted with the same rotation and
\* the same dimensions.
FrameConversionFixed ==
    \A j, k \in 1..Len(frames) :
        (/\ frames[j].helper = frames[k].helper
         /\ frames[j].used # <<>>
         /\ frames[k].used # <<>>)
          => frames[j].used = frames[k].used

\* C19: once a pipeline has been started, every frame of it is processed
\* with the same stream configuration and the same rotation: the frames of
\* one helper are converted alike, and the configuration and the rotation of
\* an ImageHandler are changed by no step.
C19_ConfigurationFixed ==
    /\ []FrameConversionFixed
    /\ ImageHandlerFixed

\* The ids of the back-facing cameras of the list.
BackFacing(cameras) == {i \in 1..Len(cameras) : cameras[i] = "BACK"}

\* C20: for every list of cameras, get_camera_id returns the first id, in
\* the order of the list, whose facing is back-facing.
C20_FirstBackFacing ==
    sel.pc = "done" =>
        /\ sel.out # <<>>
        /\ sel.out[1] \in BackFacing(sel.cameras)
        /\ \A i \in BackFacing(sel.cameras) : sel.out[1] <= i

\* The selection has ended and every native call it made succeeded.
SelectionEnded ==
    /\ sel.pc \in {"done", "panicked"}
    /\ sel.failed \in {"none", "unwrap"}

\* C21: when no camera of the id list is back-facing, the empty list
\* included, the selection fails with an error value the caller can handle;
\* it does not panic.
C21_NoMatchingCameraError ==
    (SelectionEnded /\ BackFacing(sel.cameras) = {}) => sel.pc # "panicked"

\* The handles get_camera_id opened: the id list and one metadata per camera
\* it looked at.
SelectionHandles == DOMAIN sel.native

\* C22: no handle is released twice; once the selection has returned or
\* failed, the id list and every metadata it opened, those of rejected cameras
\* included, have been released exactly once, and the returned id points
\* into the memory of no released handle.
C22_SelectionReleasesAll ==
    /\ \A h \in SelectionHandles : sel.native[h] <= 1
    /\ sel.pc \in {"done", "panicked"} =>
         /\ \A h \in SelectionHandles : sel.native[h] = 1
         /\ \A k \in 1..Len(sel.borrows) : sel.native[sel.borrows[k]] = 0

\* An id was returned after a camera was rejected: the list and the
\* metadata of at least two cameras were opened.
C22_Witness ==
    /\ sel.pc = "done"
    /\ \E i \in 1..Len(sel.cameras) : sel.cameras[i] # "BACK"
    /\ Cardinality(SelectionHandles) >= 3

\* The entries of the data of a stream configuration entry.
EntriesOf(data) ==
    {[format |-> data[4 * k + 1], width |-> data[4 * k + 2], height |-> data[4 * k + 3]] :
        k \in 0..((Len(data) \div 4) - 1)}

JpegEntries(data) == {e \in EntriesOf(data) : e.format = "JPEG"}

StreamConfigurationChosen == pure.f = "get_stream_configuration" /\ pure.pc # "call"

\* C23: for every list of entries with at least one JPEG entry that a camera
\* supports, get_stream_configuration returns one of the JPEG entries of the
\* list, and no JPEG entry of the list is narrower than it.
C23_SmallestJpeg ==
    (StreamConfigurationChosen /\ JpegEntries(pure.arg) # {}) =>
        /\ pure.pc = "returned"
        /\ pure.out[1] \in JpegEntries(pure.arg)
        /\ \A e \in JpegEntries(pure.arg) : pure.out[1].width <= e.width

\* Whenever get_stream_configuration returns, it returns one of the JPEG
\* entries of the list, and no JPEG entry of the list is narrower than it.
ReturnsNarrowestJpeg ==
    (StreamConfigurationChosen /\ pure.pc = "returned") =>
        /\ pure.out[1] \in JpegEntries(pure.arg)
        /\ \A e \in JpegEntries(pure.arg) : pure.out[1].width <= e.width

\* C24: when the list holds no JPEG entry, get_stream_configuration fails
\* with an error value the caller can handle; it does not panic.
C24_UnsupportedConfigurationError ==
    (StreamConfigurationChosen /\ JpegEntries(pure.arg) = {}) => pure.pc # "panicked"

\* The bucket of an angle of 0..359: a quarter turn wide, centred on 0, 90,
\* 180 and 270.
BucketOf(angle) ==
    CASE 45 <= angle /\ angle < 135 -> "Deg90"
      [] 135 <= angle /\ angle < 225 -> "Deg180"
      [] 225 <= angle /\ angle < 315 -> "Deg270"
      [] (0 <= angle /\ angle < 45) \/ (315 <= angle /\ angle < 360) -> "Deg0"

\* C25: for every sensor orientation and device rotation of 0, 90, 180 and
\* 270 the ImageRotation resolved for the camera, the one from_deg makes of
\* the degrees camera_rotation returns, is the bucket of
\* (sensor - device + 360) mod 360; 90 and 0 give Deg90, 0 and 270 give Deg90.
C25_ResolvedRotation ==
    (pure.f = "camera_rotation" /\ pure.pc # "call") =>
        /\ pure.pc = "returned"
        /\ FromDeg(pure.out[1]) = BucketOf((pure.arg[1] - pure.arg[2] + 360) % 360)
        /\ pure.arg = <<90, 0>> => FromDeg(pure.out[1]) = "Deg90"
        /\ pure.arg = <<0, 270>> => FromDeg(pure.out[1]) = "Deg90"

\* The dimensions the claim gives a buffer of a frame of size w x h under a
\* rotation.
Turned(rotation, w, h) ==
    IF rotation \in {"Deg90", "Deg270"} THEN <<h, w>> ELSE <<w, h>>

\* C26: the pixel buffer made from a frame of the configured size w x h is
\* h x w when the rotation is Deg90 or Deg270 and w x h when it is Deg0 or
\* Deg180, in create_slint_image and in rotation_mode alike.
C26_RotatedDimensions ==
    /\ (pure.f = "create_slint_image" /\ pure.pc = "returned") =>
          LET hd == pure.arg[1]
          IN <<pure.out[1].width, pure.out[1].height>>
               = Turned(hd.rotation, hd.stream_configuration.width,
                        hd.stream_configuration.height)
    /\ (pure.f = "rotation_mode" /\ pure.pc = "returned") =>
          <<pure.out[1].width, pure.out[1].height>>
            = Turned(FromDeg(pure.arg[1]), pure.arg[2], pure.arg[3])

\* A frame of 640 x 480 was turned by Deg90 into a buffer of 480 x 640.
C26_Witness ==
    /\ pure.f = "create_slint_image"
    /\ pure.pc = "returned"
    /\ pure.arg[1].rotation = "Deg90"
    /\ pure.arg[1].stream_configuration.width = 640
    /\ pure.out[1].width = 480
    /\ pure.out[1].height = 640

\* C29: from_deg returns for every integer: Deg90 in [45, 135), Deg180 in
\* [135, 225), Deg270 in [225, 315) and Deg0 for every other integer, the
\* negative ones and those from 360 on included; nothing is normalised.
C29_FromDegTotal ==
    (pure.f = "from_deg" /\ pure.pc # "call") =>
        LET rotation == pure.arg[1]
        IN /\ pure.pc = "returned"
           /\ (rotation < 0 \/ rotation >= 360) => pure.out[1] = "Deg0"
           /\ (0 <= rotation /\ rotation < 360) => pure.out[1] = BucketOf(rotation)

\* from_deg was applied to -270, which a normalisation would turn into 90.
C29_Witness ==
    /\ pure.f = "from_deg"
    /\ pure.pc = "returned"
    /\ pure.arg[1] = -270
    /\ pure.out[1] = "Deg0"

\* C30: for every rotation and size rotation_mode picks the bucket from_deg
\* picks: no rotation for Deg0, Rotate270 for Deg90, Rotate180 for Deg180,
\* Rotate90 for Deg270; the product of the dimensions it returns is
\* width x height.
C30_RotationModeAgrees ==
    (pure.f = "rotation_mode" /\ pure.pc # "call") =>
        LET bucket == FromDeg(pure.arg[1])
            got == pure.out[1]
        IN /\ pure.pc = "returned"
           /\ got.mode = <<>> <=> bucket = "Deg0"
           /\ bucket = "Deg90" => got.mode = <<"Rotate270">>
           /\ bucket = "Deg180" => got.mode = <<"Rotate180">>
           /\ bucket = "Deg270" => got.mode = <<"Rotate90">>
           /\ got.width * got.height = pure.arg[2] * pure.arg[3]

\* rotation_mode was applied to an angle of the 90 bucket and to a frame
\* that is not square.
C30_Witness ==
    /\ pure.f = "rotation_mode"
    /\ pure.pc = "returned"
    /\ FromDeg(pure.arg[1]) = "Deg90"
    /\ pure.out[1].mode = <<"Rotate270">>
    /\ pure.arg[2] # pure.arg[3]

\* A CameraContext is being destroyed or has been.
ContextDestroyed == cam = "teardown" \/ TeardownDone

\* C27: whenever a CameraContext is destroyed, the CaptureSession is closed
\* before the CameraDevice is closed, and the OutputContainer of the device
\* is freed before the device is closed.
C27_SessionAndContainerBeforeDevice ==
    ContextDestroyed =>
        \A i \in At("ACameraDevice_close") :
            /\ \E j \in At("ACameraCaptureSession_close") : j < i
            /\ \E j \in At("ACaptureSessionOutputContainer_free") : j < i
            /\ \A j \in At("ACameraCaptureSession_close")
                        \cup At("ACaptureSessionOutputContainer_free") : j < i

\* The destruction of a CameraContext has closed its device.
C27_Witness ==
    /\ cam = "teardown"
    /\ pending # <<>>
    /\ log # <<>>
    /\ log[Len(log)].op = "ACameraDevice_close"

\* The value of an Option, as a set.
OptSet(o) == IF o = <<>> THEN {} ELSE {o[1]}

\* The positions in `made` of the call `o` on handle h.
Pos(made, o, h) == {i \in 1..Len(made) : made[i].op = o /\ made[i].h = h}

\* The wrappers a destruction that begins now drops: those of the installed
\* CameraContext in a teardown, those of the builder's locals in a panic.
DroppedRequests ==
    IF cam = "streaming"
      THEN UNION {OptSet(x.session.request) : x \in OptSet(ctx)}
      ELSE OptSet(bl.request) \cup UNION {OptSet(x.request) : x \in OptSet(bl.session)}

DroppedContainers ==
    IF cam = "streaming"
      THEN UNION {OptSet(x.device.container) : x \in OptSet(ctx)}
      ELSE OptSet(bl.container) \cup UNION {OptSet(x.container) : x \in OptSet(bl.device)}

\* In `made` the target of request r is unlinked before it is freed; a
\* request without a target is not unlinked.
RequestUnlinkedFirst(r, made) ==
    IF r.target # <<>>
      THEN /\ Pos(made, "ACameraOutputTarget_free", r.target[1].h) # {}
           /\ \E u \in Pos(made, "ACaptureRequest_removeTarget", r.h) :
                \A f \in Pos(made, "ACameraOutputTarget_free", r.target[1].h) : u < f
      ELSE Pos(made, "ACaptureRequest_removeTarget", r.h) = {}

\* In `made` the output of container c is removed before the output and
\* the container are freed; a container without an output removes nothing.
ContainerUnlinkedFirst(c, made) ==
    IF c.output # <<>>
      THEN /\ Pos(made, "ACaptureSessionOutput_free", c.output[1].h) # {}
           /\ Pos(made, "ACaptureSessionOutputContainer_free", c.h) # {}
           /\ \E u \in Pos(made, "ACaptureSessionOutputContainer_remove", c.h) :
                \A f \in Pos(made, "ACaptureSessionOutput_free", c.output[1].h)
                         \cup Pos(made, "ACaptureSessionOutputContainer_free", c.h) : u < f
      ELSE Pos(made, "ACaptureSessionOutputContainer_remove", c.h) = {}

\* A destruction begins: the calls it will make, in order, are pending'.
DropBegins == cam \notin {"teardown", "unwinding"} /\ cam' \in {"teardown", "unwinding"}

\* C28: in every destruction, an OutputTarget attached to a CaptureRequest is
\* removed from it before ACameraOutputTarget_free is called, and a
\* SessionOutput added to an OutputContainer is removed from it before the
\* output or the container is freed; a request or a container without a
\* child makes no unlink call.
C28_UnlinkBeforeFree ==
    [][DropBegins =>
         /\ \A r \in DroppedRequests : RequestUnlinkedFirst(r, pending')
         /\ \A c \in DroppedContainers : ContainerUnlinkedFirst(c, pending')]_vars

\* A panic has dropped a request that had no target, without an unlink call,
\* and a container that had its output, after removing it.
C28_Witness ==
    /\ cam = "panicked"
    /\ pending = <<>>
    /\ At("ACaptureRequest_free") # {}
    /\ At("ACaptureRequest_removeTarget") = {}
    /\ At("ACaptureSessionOutputContainer_remove") # {}
    /\ At("ACaptureSessionOutput_free") # {}

\* The window boxes leaked by Box::into_raw and not freed since.
LeakedBoxes == {b \in 1..Len(boxes) : boxes[b] = 0}

\* Caller c's call returns r in this step.
Completes(c, r) ==
    /\ pc'[c] = "idle"
    /\ ret'[c] = r
    /\ (pc[c] # "idle" \/ calls'[c] # calls[c])

\* C31: with calls made one after the other and no host call failing,
\* between calls one window box is leaked and not freed when the slot is
\* occupied and none when it is empty, and no box is freed twice; a start
\* that returns true leaves the slot occupied, a stop leaves it empty, a
\* start that returns false finds and leaves it empty, and no other step
\* changes the slot.
C31_OneBoxPerOccupiedSlot ==
    /\ [](NoHostFailure =>
            /\ \A b \in 1..Len(boxes) : boxes[b] <= 1
            /\ NoCallRuns =>
                 Cardinality(LeakedBoxes) = IF slot # None THEN 1 ELSE 0)
    /\ [][NoHostFailure' =>
            /\ \A c \in Callers :
                 /\ Completes(c, "true") => slot' # None
                 /\ Completes(c, "unit") => slot' = None
                 /\ Completes(c, "false") => (slot = None /\ slot' = None)
            /\ slot' # slot =>
                 \E c \in Callers : Completes(c, "true") \/ Completes(c, "unit")]_vars

\* A start, a stop and a second start have run: the first box is freed, the
\* second is leaked and the slot is occupied.
C31_Witness ==
    /\ NoHostFailure
    /\ NoCallRuns
    /\ slot # None
    /\ Len(boxes) = 2
    /\ boxes[1] = 1
    /\ boxes[2] = 0

\* The calls that are at their write of the slot.
AtWrite == {c \in Callers : pc[c] \in {"start_install", "stop_write"}}

\* C32: no call is at its write of the slot while it holds the read guard,
\* and every call that has begun returns or panics unless the process is
\* aborted: the callers make finitely many calls, so from some point on no
\* call is running.
C32_NoLockUpgrade ==
    /\ [](\A c \in AtWrite : c \notin readers)
    /\ <>[](~ProcessAlive \/ \A c \in Callers : pc[c] \in {"idle", "panicked"})

\* A stop that found the slot occupied, and so held the read guard, has come
\* to its write of the slot.
C32_Witness ==
    \E c \in Callers :
        /\ pc[c] = "stop_write"
        /\ local[c].saw
        /\ c \notin readers

\* code_handler runs: it has loaded the URLs and has not panicked.
HandlerRuns == ch.pc \in {"top", "await", "closed"}

\* A message of the type is received in this step.
Receives(type) == ch'.handled = ch.handled + 1 /\ ch'.msg[1].type = type

\* The message received in this step leaves the TOTP list, the UI list and
\* the counter as they are and makes no call to the store.
ListsUnchanged ==
    /\ ch'.totps = ch.totps
    /\ ch'.codes = ch.codes
    /\ ch'.disk = <<>>
    /\ ch'.unique_idx = ch.unique_idx

\* C33: an Add is acted on only when more than 1000 ms have passed since the
\* TOTP list grew last (since code_handler started, before the first add);
\* an Add inside that window is dropped and changes neither list, store nor
\* counter; an Add that is rejected changes none of them either and does
\* not restart the window.
C33_AddDebounced ==
    [][Receives("Add") =>
         /\ (ch'.now - ch.added_at <= 1000) => (ch'.res = "dropped" /\ ListsUnchanged)
         /\ (ch'.now - ch.added_at > 1000) => ch'.res # "dropped"
         /\ ch'.res \in {"duplicate", "invalid"} =>
              (ListsUnchanged /\ ch'.added_at = ch.added_at)
         /\ ch'.res = "added" => ch'.added_at = ch'.now]_vars

\* An Add was accepted right after another Add had been rejected, both more
\* than a second after the start.
C33_Witness ==
    /\ ch.res = "added"
    /\ ch.handled >= 2
    /\ ch.now = 1002
    /\ ch.added_at = 1002

\* The code was generated from the TOTP.
GeneratedFrom(code, totp) ==
    code = TotpToCode(code.unique_idx, totp, code.start_unix_time)

\* C34: while code_handler runs, the TOTP list and the UI list have the same
\* length, and the code of every row was generated from the TOTP of that
\* row.
C34_RowsAligned ==
    HandlerRuns =>
        /\ Len(ch.totps) = Len(ch.codes)
        /\ \A i \in 1..Len(ch.codes) : GeneratedFrom(ch.codes[i], ch.totps[i])

\* A row has been edited in a list of three rows, after an add.
C34_Witness ==
    /\ HandlerRuns
    /\ Len(ch.codes) = 3
    /\ ch.res = "edited"
    /\ ch.codes[1].name = ch.codes[3].name

\* The unique_idx of the rows of the UI list, in order.
IdxOf(codes) == [i \in 1..Len(codes) |-> codes[i].unique_idx]

\* The elements of a sequence.
Range(q) == {q[i] : i \in 1..Len(q)}

\* C35: the codes of the UI list have pairwise distinct unique_idx values,
\* all below the counter; the counter advances by one on an add that was
\* made and on nothing else; an Edit and the refresh keep the unique_idx of
\* every row, a Move keeps the unique_idx values, a Remove takes one away.
C35_UniqueIdxDistinct ==
    /\ [](HandlerRuns =>
            /\ \A i, j \in 1..Len(ch.codes) :
                 i # j => ch.codes[i].unique_idx # ch.codes[j].unique_idx
            /\ \A i \in 1..Len(ch.codes) : ch.codes[i].unique_idx < ch.unique_idx)
    /\ [][(HandlerRuns /\ HandlerRuns') =>
            /\ ch'.unique_idx = IF ch'.handled # ch.handled /\ ch'.res = "added"
                                  THEN ch.unique_idx + 1 ELSE ch.unique_idx
            /\ (ch'.handled = ch.handled \/ Receives("Edit")) =>
                 IdxOf(ch'.codes) = IdxOf(ch.codes)
            /\ Receives("Move") => Range(IdxOf(ch'.codes)) = Range(IdxOf(ch.codes))
            /\ Receives("Remove") =>
                 Range(IdxOf(ch'.codes)) = Range(IdxOf(ch.codes)) \ {ch'.msg[1].unique_idx}]_vars

\* A code was added after one had been removed: its unique_idx is above
\* every one handed out before.
C35_Witness ==
    /\ HandlerRuns
    /\ ch.res = "added"
    /\ ch.unique_idx = 3
    /\ Len(ch.codes) = 2
    /\ ch.codes[2].unique_idx = 2

\* C36: while code_handler runs, no two entries of the TOTP list have the
\* same normalized URL.
C36_NoDuplicateUrl ==
    HandlerRuns =>
        \A i, j \in 1..Len(ch.totps) :
            i # j => GetUrl(ch.totps[i]) # GetUrl(ch.totps[j])

\* The row a Move message addresses, its neighbour in the direction of the
\* message, and the call to the store that asks for the swap of their URLs.
MovedRow == CHOOSE r \in 1..Len(ch.codes) : ch.codes[r].unique_idx = ch'.msg[1].unique_idx
OtherRow == IF ch'.msg[1].direction = "Up" THEN MovedRow - 1 ELSE MovedRow + 1
AtEdge == OtherRow = 0 \/ OtherRow > Len(ch.codes)
SwapAsked ==
    ch'.disk = <<[op |-> "swap_urls_on_disk",
                  urls |-> <<GetUrl(ch.totps[MovedRow]), GetUrl(ch.totps[OtherRow])>>]>>

\* The step exchanges the addressed row and its neighbour in the TOTP list
\* and in the UI list, every other row staying as it is, and asks the store
\* to swap the URLs of the two.
NeighboursSwapped ==
    /\ ch'.totps = Swap(ch.totps, MovedRow, OtherRow)
    /\ ch'.codes = Swap(ch.codes, MovedRow, OtherRow)
    /\ SwapAsked

====
